---- MODULE Spec2Model ----
(***************************************************************************)
(* Request/response correlation of the chat bots: the Bot trait's          *)
(* wait_for_answer and communicate (src/src/bot.rs), run against an        *)
(* incoming message stream that the chat server fills concurrently.        *)
(*                                                                         *)
(* Message texts are sequences of tokens; a regular expression over the    *)
(* text is an operator that scans the tokens for its leftmost match.       *)
(***************************************************************************)
EXTENDS Integers, Sequences, FiniteSets, TLC

\* ------------------------------------------------------------------ bounds
\* Capacity given to the (unbounded) receiver buffer.
MaxQueue == 2

\* ------------------------------------------------------- program constants
MAX_RETRIES == 3
TIMEOUT_SECS == 5
BACKOFF_BASE == 2
BACKOFF_SHIFT == 2

\* The anti-duplication code point U+E0000 appended to a command.
MARKER == "U+E0000"

\* LeafBot's identity of the target bot; the own login name.
USER_ID == "731132488"
OTHER_ID == "1"
Username == "me"

AUTH_FAILED_TEXT == <<"Login authentication failed">>

\* The command texts handed to communicate.
CLAIM_MESSAGE == <<"*leaves">>
EG_MESSAGE == <<"=eg">>
Commands == {CLAIM_MESSAGE, EG_MESSAGE}

\* ------------------------------------------------------------ message texts
\* "@name" tokens and the name (\w+) they carry.
AtTokens == {"@me", "@you"}
NameOf(tok) == IF tok = "@me" THEN "me" ELSE "you"

ToMe == <<"leaf", "@me", ">", "w">>
ToYou == <<"leaf", "@you", ">", "w">>
ToYouThenMe == <<"leaf", "@you", ">", "leaf", "@me", ">">>
Mention == <<"w", "@me", ">">>
PrivTexts == {ToMe, ToYou, ToYouThenMe, Mention}

Privmsg(sender, text) == [kind |-> "Privmsg", sender |-> sender, text |-> text]
Notice(text) == [kind |-> "Notice", sender |-> "", text |-> text]
Join == [kind |-> "Join", sender |-> "", text |-> <<>>]

ServerMessage ==
    {Privmsg(USER_ID, t) : t \in PrivTexts}
        \cup {Privmsg(OTHER_ID, ToMe), Privmsg(OTHER_ID, AUTH_FAILED_TEXT)}
        \cup {Notice(AUTH_FAILED_TEXT), Notice(<<"Login unsuccessful">>)}
        \cup {Join}

\* GENERIC_ANSWER = \x{1F343} @(?P<username>\w+) > .*  (unanchored):
\* the positions where the pattern matches, and the captures of the
\* leftmost match ("" stands for no match).
GenericMatchAt(text) ==
    {i \in 1..Len(text) :
        /\ i + 2 <= Len(text)
        /\ text[i] = "leaf"
        /\ text[i + 1] \in AtTokens
        /\ text[i + 2] = ">"}

Min(S) == CHOOSE x \in S : \A y \in S : x <= y

get_generic_answer(text) ==
    IF GenericMatchAt(text) = {}
    THEN ""
    ELSE NameOf(text[Min(GenericMatchAt(text)) + 1])

get_bot_id == USER_ID
get_username == Username

\* ------------------------------------------------------------------ results
NoResult == [kind |-> "none", body |-> <<>>, n |-> 0]
Ok(body) == [kind |-> "Ok", body |-> body, n |-> 0]
Err(e) == [kind |-> e, body |-> <<>>, n |-> 0]
FailedCommunication(n) == [kind |-> "FailedCommunication", body |-> <<>>, n |-> n]
Continue == [kind |-> "continue", body |-> <<>>, n |-> 0]

\* One iteration of wait_for_answer's loop on a received message: the value
\* returned, or Continue when the loop goes on to the next recv().
SenderMatches_anySender(msg) == TRUE

SenderMatches(msg) == msg.sender = get_bot_id

AddressedToMe_inverted(text) == get_generic_answer(text) # get_username

AddressedToMe(text) == get_generic_answer(text) = get_username

IsAuthFailure_anyNotice(msg) == msg.kind = "Notice"

IsAuthFailure(msg) == msg.kind = "Notice" /\ msg.text = AUTH_FAILED_TEXT

\* A correlated reply (spec glossary): an ordinary message of the expected
\* bot whose captured username is the own one.
IsCorrelated(msg) ==
    /\ msg.kind = "Privmsg"
    /\ msg.sender = USER_ID
    /\ get_generic_answer(msg.text) = Username

wait_for_answer(msg) ==
    CASE msg.kind = "Privmsg" ->
            IF ~SenderMatches(msg)
            THEN Continue
            ELSE IF get_generic_answer(msg.text) # "" /\ AddressedToMe(msg.text)
                 THEN Ok(msg.text)
                 ELSE Continue
      [] msg.kind = "Notice" ->
            IF IsAuthFailure(msg) THEN Err("AuthenticateChatError") ELSE Continue
      [] OTHER -> Continue

\* communicate: the text of the send of attempt `retry`.
message_to_send_odd(message, retry) ==
    IF retry % 2 = 1 THEN message \o <<MARKER>> ELSE message

message_to_send(message, retry) ==
    IF retry % 2 = 0 THEN message \o <<MARKER>> ELSE message

\* communicate: the backoff after the timeout of attempt `retry`.
Backoff_linear(retry) == BACKOFF_BASE * (retry + BACKOFF_SHIFT)

Backoff(retry) == BACKOFF_BASE ^ (retry + BACKOFF_SHIFT)

\* for retry in 0..=MAX_RETRIES
HasNextRetry_inclusive(retry) == retry <= MAX_RETRIES

HasNextRetry(retry) == retry < MAX_RETRIES

\* --------------------------------------------------- numerals in a text
\* A numeral is one token of a text; NumChars gives its characters, on
\* which the regular expressions and str::parse work.
NumChars(tok) ==
    CASE tok = "0" -> <<"0">>
      [] tok = "04" -> <<"0", "4">>
      [] tok = "10" -> <<"1", "0">>
      [] tok = "30" -> <<"3", "0">>
      [] tok = "34" -> <<"3", "4">>
      [] tok = "50" -> <<"5", "0">>
      [] tok = "54" -> <<"5", "4">>
      [] tok = "56" -> <<"5", "6">>
      [] tok = "60" -> <<"6", "0">>
      [] tok = "92" -> <<"9", "2">>
      [] tok = "152" -> <<"1", "5", "2">>
      [] tok = "-5" -> <<"-", "5">>
      [] tok = "+0" -> <<"+", "0">>
      [] tok = "+1" -> <<"+", "1">>
      [] tok = "+24" -> <<"+", "2", "4">>
      [] tok = "-3" -> <<"-", "3">>
      [] tok = "+6" -> <<"+", "6">>
      [] tok = "-6" -> <<"-", "6">>
      [] tok = "±0" -> <<"±", "0">>
      [] tok = "x5" -> <<"x", "5">>
      [] tok = "31" -> <<"3", "1">>
      [] tok = "79" -> <<"7", "9">>
      [] tok = "84" -> <<"8", "4">>
      [] tok = "+99999999999" ->
            <<"+", "9", "9", "9", "9", "9", "9", "9", "9", "9", "9", "9">>
      [] OTHER -> <<>>

Digit == {"0", "1", "2", "3", "4", "5", "6", "7", "8", "9"}

DigitValue(c) ==
    CASE c = "0" -> 0 [] c = "1" -> 1 [] c = "2" -> 2 [] c = "3" -> 3
      [] c = "4" -> 4 [] c = "5" -> 5 [] c = "6" -> 6 [] c = "7" -> 7
      [] c = "8" -> 8 [] c = "9" -> 9

\* \d+
IsDigits(cs) == cs # <<>> /\ \A i \in 1..Len(cs) : cs[i] \in Digit

\* [+-]\d+
IsSigned(cs) == Len(cs) >= 2 /\ cs[1] \in {"+", "-"} /\ IsDigits(Tail(cs))

\* -?\d+
IsOptMinus(cs) ==
    IsDigits(cs) \/ (Len(cs) >= 2 /\ cs[1] = "-" /\ IsDigits(Tail(cs)))

RECURSIVE DigitsValue(_)
DigitsValue(cs) ==
    IF cs = <<>>
    THEN 0
    ELSE 10 * DigitsValue(SubSeq(cs, 1, Len(cs) - 1)) + DigitValue(cs[Len(cs)])

\* str::parse::<i32>() and ::<u64>() of a numeral the patterns let through:
\* <<v>> for Ok(v), <<>> for Err(ParseIntError). A numeral of more than
\* I32_DIGITS digits is beyond i32.
I32_DIGITS == 10
U64_DIGITS == 20

ParseInt_unsigned(cs, width) ==
    LET digits == IF cs[1] \in {"+", "-"} THEN Tail(cs) ELSE cs IN
    IF Len(digits) > width THEN <<>> ELSE <<DigitsValue(digits)>>

ParseInt(cs, width) ==
    LET digits == IF cs[1] \in {"+", "-"} THEN Tail(cs) ELSE cs IN
    IF Len(digits) > width
    THEN <<>>
    ELSE <<IF cs[1] = "-" THEN 0 - DigitsValue(digits) ELSE DigitsValue(digits)>>

ParseI32(cs) == ParseInt(cs, I32_DIGITS)
ParseU64(cs) == ParseInt(cs, U64_DIGITS)

\* Option<u64>::unwrap_or(0)
UnwrapOr0(opt) == IF opt = <<>> THEN 0 ELSE opt[1]

\* ------------------------------------------------ replies of the target bots
\* Literal stretches of the patterns are single tokens:
\*   "wait"      FeelsBadMan You need to wait
\*   "until"     minutes until you can get more leaves | You've got
\*   "got"       | You've got
\*   "now1h"     leaves now! | Get more leaves in 1 hour...
\*   "comeback"  nam1Sadeg no eg. come back in
\*   "total"     Total egs:
LeafGood(amount, total) ==
    <<"leaf", "@me", ">", "w", "(", amount, ")", "got", total, "now1h">>
LeafBad(minutes, seconds, total) ==
    <<"leaf", "@me", ">", "wait", minutes, ":", seconds, "until", total, "leaves">>
EgGood(amount, total) ==
    <<"@me", "|", "w", "|", amount, "egs", "|", "total", total, "egg">>
EgBad(minutes, seconds, total) ==
    <<"@me", "comeback", minutes, "minutes,", seconds, "seconds", "total", total>>
EgBadMinutes(minutes, total) ==
    <<"@me", "comeback", minutes, "minutes,", "total", total>>
EgOther == <<"@me", "w">>
\* Cooldown-shaped replies whose minutes are left out.
LeafBadSeconds(seconds, total) ==
    <<"leaf", "@me", ">", "wait", ":", seconds, "until", total, "leaves">>
EgBadSeconds(seconds, total) ==
    <<"@me", "comeback", seconds, "seconds", "total", total>>

\* The start of the leftmost match, given the starts of all matches; 0
\* when there is none.
Leftmost(starts) == IF starts = {} THEN 0 ELSE Min(starts)

TokenIs(text, i, tok) == i >= 1 /\ i <= Len(text) /\ text[i] = tok
TokenIn(text, i, S) == i >= 1 /\ i <= Len(text) /\ text[i] \in S
NumeralAt(text, i) ==
    IF i >= 1 /\ i <= Len(text) THEN NumChars(text[i]) ELSE <<>>

\* leavesbot CLAIM_GOOD:
\*   \x{1F343} @(\w+) > .* \(([+-]\d+)\) \| You've got (-?\d+) leaves now! \| Get more ...
\* LeafGoodTail(text, j): "(amount) | You've got total leaves now! ..." at j.
LeafGoodTail(text, j) ==
    /\ TokenIs(text, j, "(")
    /\ IsSigned(NumeralAt(text, j + 1))
    /\ TokenIs(text, j + 2, ")")
    /\ TokenIs(text, j + 3, "got")
    /\ IsOptMinus(NumeralAt(text, j + 4))
    /\ TokenIs(text, j + 5, "now1h")

LeafHead(text, i) ==
    /\ TokenIs(text, i, "leaf")
    /\ TokenIn(text, i + 1, AtTokens)
    /\ TokenIs(text, i + 2, ">")

LeafGoodAt(text, i) ==
    LeafHead(text, i) /\ \E j \in (i + 4)..Len(text) : LeafGoodTail(text, j)

\* leavesbot CLAIM_BAD:
\*   \x{1F343} @(\w+) > FeelsBadMan You need to wait (\d+):(\d+) minutes until
\*   you can get more leaves \| You've got (-?\d+) leaves
LeafBadAt(text, i) ==
    /\ LeafHead(text, i)
    /\ TokenIs(text, i + 3, "wait")
    /\ IsDigits(NumeralAt(text, i + 4))
    /\ TokenIs(text, i + 5, ":")
    /\ IsDigits(NumeralAt(text, i + 6))
    /\ TokenIs(text, i + 7, "until")
    /\ IsOptMinus(NumeralAt(text, i + 8))
    /\ TokenIs(text, i + 9, "leaves")

\* okayegbot GENERIC_ANSWER:  @(\w+) .*
EgGenericAt(text, i) == TokenIn(text, i, AtTokens) /\ i < Len(text)

eg_generic_answer(text) ==
    LET i == Leftmost({k \in 1..Len(text) : EgGenericAt(text, k)}) IN
    IF i = 0 THEN "" ELSE NameOf(text[i])

\* okayegbot CLAIM_GOOD:
\*   @(\w+) \| [^\|]* \| ([+-]\d+) +egs \| Total egs: (\d+)<space>
\* EgGoodTail(text, j): "| amount egs | Total egs: total " at j.
EgGoodTail(text, j) ==
    /\ TokenIs(text, j, "|")
    /\ IsSigned(NumeralAt(text, j + 1))
    /\ TokenIs(text, j + 2, "egs")
    /\ TokenIs(text, j + 3, "|")
    /\ TokenIs(text, j + 4, "total")
    /\ IsDigits(NumeralAt(text, j + 5))
    /\ j + 6 <= Len(text)

EgGoodAt(text, i) ==
    /\ TokenIn(text, i, AtTokens)
    /\ TokenIs(text, i + 1, "|")
    /\ \E j \in (i + 3)..Len(text) :
        /\ EgGoodTail(text, j)
        /\ \A k \in (i + 2)..(j - 1) : text[k] # "|"

\* okayegbot CLAIM_BAD:
\*   @(\w+) nam1Sadeg no eg. come back in (\d+) minutes?,( (\d+) seconds?)? Total egs: (\d+)
EgBadHasSeconds(text, i) ==
    /\ IsDigits(NumeralAt(text, i + 4))
    /\ TokenIs(text, i + 5, "seconds")
    /\ TokenIs(text, i + 6, "total")
    /\ IsDigits(NumeralAt(text, i + 7))

EgBadNoSeconds(text, i) ==
    /\ TokenIs(text, i + 4, "total")
    /\ IsDigits(NumeralAt(text, i + 5))

EgBadAt(text, i) ==
    /\ TokenIn(text, i, AtTokens)
    /\ TokenIs(text, i + 1, "comeback")
    /\ IsDigits(NumeralAt(text, i + 2))
    /\ TokenIs(text, i + 3, "minutes,")
    /\ (EgBadHasSeconds(text, i) \/ EgBadNoSeconds(text, i))

\* ---------------------------------------------------------------- parsers
\* The value of str::parse::<ClaimResponse>() / ::<ClaimEgs>().
ParseErr(e) ==
    [kind |-> "Err", err |-> e, username |-> "", amount |-> 0, total |-> 0,
     minutes |-> <<>>, seconds |-> <<>>]
Success(u, a, t) ==
    [kind |-> "Success", err |-> "", username |-> u, amount |-> a, total |-> t,
     minutes |-> <<>>, seconds |-> <<>>]
Cooldown(u, m, s, t) ==
    [kind |-> "Cooldown", err |-> "", username |-> u, amount |-> 0, total |-> t,
     minutes |-> m, seconds |-> s]
Failure(u, m, s, t) ==
    [kind |-> "Failure", err |-> "", username |-> u, amount |-> 0, total |-> t,
     minutes |-> m, seconds |-> s]
NoOutcome ==
    [kind |-> "none", err |-> "", username |-> "", amount |-> 0, total |-> 0,
     minutes |-> <<>>, seconds |-> <<>>]

\* ClaimResponse::parse_success
LeafParseSuccess(s) ==
    LET i == Leftmost({k \in 1..Len(s) : LeafGoodAt(s, k)})
        j == CHOOSE j \in (i + 4)..Len(s) :
                /\ LeafGoodTail(s, j)
                /\ \A k \in (j + 1)..Len(s) : ~LeafGoodTail(s, k)
        amount == ParseI32(NumChars(s[j + 1]))
        total == ParseI32(NumChars(s[j + 4]))
    IN  IF i = 0 THEN ParseErr("ExpectedSuccess")
        ELSE IF amount = <<>> \/ total = <<>> THEN ParseErr("ParseIntError")
        ELSE Success(NameOf(s[i + 1]), amount[1], total[1])

LeafParseCooldown_swapped(s) ==
    LET i == Leftmost({k \in 1..Len(s) : LeafBadAt(s, k)})
        minutes == ParseU64(NumChars(s[i + 4]))
        seconds == ParseU64(NumChars(s[i + 6]))
        total == ParseI32(NumChars(s[i + 8]))
    IN  IF i = 0 THEN ParseErr("ExpectedBad")
        ELSE IF minutes = <<>> \/ seconds = <<>> \/ total = <<>>
        THEN ParseErr("ParseIntError")
        ELSE Cooldown(NameOf(s[i + 1]), seconds, minutes, total[1])

\* ClaimResponse::parse_cooldown
LeafParseCooldown(s) ==
    LET i == Leftmost({k \in 1..Len(s) : LeafBadAt(s, k)})
        minutes == ParseU64(NumChars(s[i + 4]))
        seconds == ParseU64(NumChars(s[i + 6]))
        total == ParseI32(NumChars(s[i + 8]))
    IN  IF i = 0 THEN ParseErr("ExpectedBad")
        ELSE IF minutes = <<>> \/ seconds = <<>> \/ total = <<>>
        THEN ParseErr("ParseIntError")
        ELSE Cooldown(NameOf(s[i + 1]), minutes, seconds, total[1])

LeafFromStr_lenient(s) ==
    IF \E i \in 1..Len(s) : LeafGoodAt(s, i) THEN LeafParseSuccess(s)
    ELSE IF \E i \in 1..Len(s) : LeafBadAt(s, i) THEN LeafParseCooldown(s)
    ELSE Cooldown("", <<>>, <<>>, 0)

\* <ClaimResponse as FromStr>::from_str
LeafFromStr(s) ==
    IF \E i \in 1..Len(s) : LeafGoodAt(s, i) THEN LeafParseSuccess(s)
    ELSE IF \E i \in 1..Len(s) : LeafBadAt(s, i) THEN LeafParseCooldown(s)
    ELSE ParseErr("InvalidMessage")

EgParseSuccess_nonzero(s) ==
    LET i == Leftmost({k \in 1..Len(s) : EgGoodAt(s, k)})
        j == CHOOSE j \in (i + 3)..Len(s) :
                /\ EgGoodTail(s, j)
                /\ \A k \in (i + 2)..(j - 1) : s[k] # "|"
        amount == ParseI32(NumChars(s[j + 1]))
        total == ParseI32(NumChars(s[j + 5]))
    IN  IF i = 0 THEN ParseErr("InvalidMessage")
        ELSE IF amount = <<>> \/ total = <<>> \/ amount = <<0>>
        THEN ParseErr("ParseIntError")
        ELSE Success(NameOf(s[i]), amount[1], total[1])

\* ClaimEgs::parse_success
EgParseSuccess(s) ==
    LET i == Leftmost({k \in 1..Len(s) : EgGoodAt(s, k)})
        j == CHOOSE j \in (i + 3)..Len(s) :
                /\ EgGoodTail(s, j)
                /\ \A k \in (i + 2)..(j - 1) : s[k] # "|"
        amount == ParseI32(NumChars(s[j + 1]))
        total == ParseI32(NumChars(s[j + 5]))
    IN  IF i = 0 THEN ParseErr("InvalidMessage")
        ELSE IF amount = <<>> \/ total = <<>> THEN ParseErr("ParseIntError")
        ELSE Success(NameOf(s[i]), amount[1], total[1])

EgParseFailure_zeroSeconds(s) ==
    LET i == Leftmost({k \in 1..Len(s) : EgBadAt(s, k)})
        minutes == ParseU64(NumChars(s[i + 2]))
        seconds == IF EgBadHasSeconds(s, i)
                   THEN ParseU64(NumChars(s[i + 4]))
                   ELSE <<0>>
        total == ParseI32(NumChars(s[IF EgBadHasSeconds(s, i) THEN i + 7 ELSE i + 5]))
    IN  IF i = 0 THEN ParseErr("InvalidMessage")
        ELSE IF minutes = <<>> \/ total = <<>> \/ seconds = <<>>
        THEN ParseErr("ParseIntError")
        ELSE Failure(NameOf(s[i]), minutes, seconds, total[1])

\* ClaimEgs::parse_failure
EgParseFailure(s) ==
    LET i == Leftmost({k \in 1..Len(s) : EgBadAt(s, k)})
        minutes == ParseU64(NumChars(s[i + 2]))
        seconds == IF EgBadHasSeconds(s, i)
                   THEN ParseU64(NumChars(s[i + 4]))
                   ELSE <<>>
        total == ParseI32(NumChars(s[IF EgBadHasSeconds(s, i) THEN i + 7 ELSE i + 5]))
    IN  IF i = 0 THEN ParseErr("InvalidMessage")
        ELSE IF minutes = <<>> \/ total = <<>>
                \/ (EgBadHasSeconds(s, i) /\ seconds = <<>>)
        THEN ParseErr("ParseIntError")
        ELSE Failure(NameOf(s[i]), minutes, seconds, total[1])

\* <ClaimEgs as FromStr>::from_str
EgFromStr(s) ==
    IF \E i \in 1..Len(s) : EgGoodAt(s, i) THEN EgParseSuccess(s)
    ELSE IF \E i \in 1..Len(s) : EgBadAt(s, i) THEN EgParseFailure(s)
    ELSE ParseErr("InvalidMessage")

\* ------------------------------------------------- thepositivebot's replies
\* Literal stretches of the patterns are single tokens:
\*   "claimed"  you have already claimed a cookie and have
\*   "ofthem"   of them!
\* A rank bracket is "[", the rank, "]"; the rank is a name, or a prestige
\* prefix such as "P6:" and a name. A cookie name is one token.
CookieGood(rank, amount, total) ==
    <<"[Cookies]", "[">> \o rank \o
    <<"]", "me", "->", "cookie", "!", "(", amount, ")", "w", "|", total, "total!">>
CookieBad(rank, total) ==
    <<"[Cookies]", "[">> \o rank \o <<"]", "me", "claimed", total, "ofthem">>

\* The characters of a prestige prefix token, "P6: " without its last space.
PrefixChars(tok) ==
    CASE tok = "P1:" -> <<"P", "1", ":">>
      [] tok = "P6:" -> <<"P", "6", ":">>
      [] tok = "P10:" -> <<"P", "1", "0", ":">>
      [] OTHER -> <<>>

\* P\d+:<space>
IsPrestigePrefix(cs) ==
    /\ Len(cs) >= 3
    /\ cs[1] = "P"
    /\ cs[Len(cs)] = ":"
    /\ IsDigits(SubSeq(cs, 2, Len(cs) - 1))

\* The tokens of the replies that \w+ matches; none of them begins with P.
CookieWords == {"default", "gold", "Gold", "me", "w", "cookie"}

\* Rank::from_str accepts these names, in lower case only.
RankNames ==
    {"default", "bronze", "silver", "gold", "platinum", "diamond", "masters",
     "grandmasters", "leader"}

\* <Rank as FromStr>::from_str: TRUE for Ok.
RankFromStr(name) == name \in RankNames

\* The class [+-±] is the range of characters from '+' to '±': of the
\* characters of the model's numerals it holds the signs, the digits and "x".
CookieLead == {"+", "-", "±", "x"} \cup Digit

\* [+-±]\d+
IsCookieAmount(cs) ==
    Len(cs) >= 2 /\ cs[1] \in CookieLead /\ IsDigits(Tail(cs))

\* str::trim_start_matches(c)
RECURSIVE TrimStartMatches(_, _)
TrimStartMatches(cs, c) ==
    IF cs # <<>> /\ cs[1] = c THEN TrimStartMatches(Tail(cs), c) ELSE cs

\* str::parse::<i32>() of any string: digits with an optional sign.
ParseI32Str(cs) ==
    IF IsDigits(cs) \/ IsSigned(cs) THEN ParseI32(cs) ELSE <<>>

\* (?P<rank>(P\d+: )?\w+)\] at token i: the number of tokens of the rank, 0
\* when it does not match. constants.rs and main.rs have (?P<level>\w+),
\* which is the pattern with prestige = FALSE.
CookieRankLen(text, i, prestige) ==
    IF /\ prestige
       /\ i >= 1 /\ i <= Len(text)
       /\ IsPrestigePrefix(PrefixChars(text[i]))
       /\ TokenIn(text, i + 1, CookieWords)
       /\ TokenIs(text, i + 2, "]")
    THEN 2
    ELSE IF TokenIn(text, i, CookieWords) /\ TokenIs(text, i + 1, "]")
    THEN 1
    ELSE 0

\* "!+ \(amount\) \w+ \| total total!" at token m
CookieGoodTail(text, m) ==
    /\ TokenIs(text, m, "!")
    /\ TokenIs(text, m + 1, "(")
    /\ IsCookieAmount(NumeralAt(text, m + 2))
    /\ TokenIs(text, m + 3, ")")
    /\ TokenIn(text, m + 4, CookieWords)
    /\ TokenIs(text, m + 5, "|")
    /\ IsDigits(NumeralAt(text, m + 6))
    /\ TokenIs(text, m + 7, "total!")

\* CLAIM_GOOD:
\*   \[Cookies\] \[(?P<rank>(P\d+: )?\w+)\] (\w+) -> ([^!]+)!+ \(([+-±]\d+)\) \w+ \| (\d+) total!
CookieGoodAt(text, i, prestige) ==
    LET r == CookieRankLen(text, i + 2, prestige) IN
    /\ TokenIs(text, i, "[Cookies]")
    /\ TokenIs(text, i + 1, "[")
    /\ r > 0
    /\ TokenIn(text, i + r + 3, CookieWords)
    /\ TokenIs(text, i + r + 4, "->")
    /\ i + r + 5 <= Len(text)
    /\ text[i + r + 5] # "!"
    /\ CookieGoodTail(text, i + r + 6)

\* CLAIM_BAD:
\*   \[Cookies\] \[(?P<rank>(P\d+: )?\w+)\] (\w+) you have already claimed a
\*   cookie and have (\d+) of them!
CookieBadAt(text, i, prestige) ==
    LET r == CookieRankLen(text, i + 2, prestige) IN
    /\ TokenIs(text, i, "[Cookies]")
    /\ TokenIs(text, i + 1, "[")
    /\ r > 0
    /\ TokenIn(text, i + r + 3, CookieWords)
    /\ TokenIs(text, i + r + 4, "claimed")
    /\ IsDigits(NumeralAt(text, i + r + 5))
    /\ TokenIs(text, i + r + 6, "ofthem")

\* <PrestigeRank as FromStr>::from_str on the tokens of the rank capture:
\* "" for Ok, else the error. A rank without a prefix token does not begin
\* with P.
PrestigeRankFromStr(rank) ==
    IF Len(rank) < 2
    THEN "MissingP"
    ELSE LET s == Tail(PrefixChars(rank[1]))
             prestige == SubSeq(s, 1, Len(s) - 1)
         IN  IF ~IsDigits(prestige) \/ Len(prestige) > I32_DIGITS
             THEN "ParsePrestigeError"
             ELSE IF ~RankFromStr(rank[2]) THEN "ParseRankError"
             ELSE ""

\* <ClaimCookieResponse as FromStr>::from_str (claimcookie.rs, with the
\* patterns of patterns.rs). The character trimmed from the amount is '±'.
CookieFromStr(s) ==
    LET good == Leftmost({k \in 1..Len(s) : CookieGoodAt(s, k, TRUE)})
        bad == Leftmost({k \in 1..Len(s) : CookieBadAt(s, k, TRUE)})
        i == IF good # 0 THEN good ELSE bad
        r == CookieRankLen(s, i + 2, TRUE)
        rank == PrestigeRankFromStr(SubSeq(s, i + 2, i + r + 1))
        amount == ParseI32Str(TrimStartMatches(NumChars(s[i + r + 8]), "±"))
        total == ParseU64(NumChars(s[IF good # 0 THEN i + r + 12 ELSE i + r + 5]))
    IN  IF good # 0
        THEN IF rank # "" THEN ParseErr(rank)
             ELSE IF amount = <<>> \/ total = <<>> THEN ParseErr("ParseIntError")
             ELSE Success(s[i + r + 5], amount[1], total[1])
        ELSE IF bad # 0
        THEN IF rank # "" THEN ParseErr(rank)
             ELSE IF total = <<>> THEN ParseErr("ParseIntError")
             ELSE Cooldown("", <<>>, <<>>, total[1])
        ELSE ParseErr("InvalidInput")

\* Ok(None) of the binary's Bot::claim_cookies
OkNone ==
    [kind |-> "None", err |-> "", username |-> "", amount |-> 0, total |-> 0,
     minutes |-> <<>>, seconds |-> <<>>]

\* The binary's Bot::claim_cookies after communicate returned msg (main.rs,
\* with its own patterns): Ok(Some((cookie, amount, total))) is Success.
main_claim_cookies(msg) ==
    LET i == Leftmost({k \in 1..Len(msg) : CookieGoodAt(msg, k, FALSE)})
        s == NumChars(msg[i + 9])
        n == ParseI32Str(TrimStartMatches(s, "±"))
        total == ParseU64(NumChars(msg[i + 13]))
    IN  IF i # 0
        THEN IF n = <<>> THEN ParseErr("could not parse amount")
             ELSE IF total = <<>> THEN ParseErr("could not parse total")
             ELSE Success(msg[i + 6], IF s[1] = "-" THEN 0 - n[1] ELSE n[1], total[1])
        ELSE IF \E k \in 1..Len(msg) : CookieBadAt(msg, k, FALSE) THEN OkNone
        ELSE ParseErr("no regex matched")

\* -------------------------------------------------------------------- state
VARIABLES
    pc,        \* position of the communicate invocation
    message,   \* communicate's argument
    retry,     \* the loop variable of communicate
    timer,     \* seconds left of the running timeout or sleep
    now,       \* seconds elapsed since the start
    queue,     \* the receiver's buffer of incoming_messages
    closed,    \* the sending half of incoming_messages was dropped
    sent,      \* the texts passed to client.say, in order
    sentAt,    \* the time of each send
    slept,     \* the durations passed to sleep, in order
    result,    \* the value communicate returned
    stale,     \* how many buffered messages were delivered before the last send
    gotStale,  \* the message that ended wait_for_answer was one of those
    authSeen,  \* an authentication-failure notice was delivered during a wait
               \* or a backoff sleep, no correlated reply buffered ahead of it
    stream,    \* the messages the stream held when wait_for_answer was called
    bot,       \* the instance whose scheduler runs: "leaf", "eg" or "cookie"
    rpc,       \* position of the scheduler's loop
    why,       \* what the scheduler is sleeping for
    outcome,   \* the parsed outcome of the last claim
    outcomeAt, \* the time the last claim returned
    runResult, \* the error the scheduler returned, "" while it runs
    iter,      \* iterations of the scheduler's loop begun so far
    iterStart, \* Len(sent) when the current iteration began
    oracle,    \* what the cooldown oracle reported in the current iteration
    present,   \* what the presence check reported in the current iteration
    cookieBot, \* the fields of thepositivebot's Bot
    input      \* the text a classifier was called with

\* The scheduler's variables; one communicate invocation leaves them alone.
runVars == <<stream, bot, rpc, why, outcome, outcomeAt, runResult, iter,
             iterStart, oracle, present, cookieBot, input>>

vars == <<pc, message, retry, timer, now, queue, closed, sent, sentAt, slept,
          result, stale, gotStale, authSeen, stream, bot, rpc, why, outcome,
          outcomeAt, runResult, iter, iterStart, oracle, present, cookieBot,
          input>>

\* No instance of thepositivebot's Bot exists.
NoCookieBot == [send_byte |-> FALSE, booster_mode |-> FALSE, connected |-> FALSE]

\* No scheduler is running.
NoRun ==
    /\ stream = <<>>
    /\ bot = "none"
    /\ rpc = "off"
    /\ why = ""
    /\ outcome = NoOutcome
    /\ outcomeAt = 0
    /\ runResult = ""
    /\ iter = 0
    /\ iterStart = 0
    /\ oracle = "none"
    /\ present = "none"
    /\ cookieBot = NoCookieBot
    /\ input = <<>>

Init ==
    /\ pc = "idle"
    /\ message = <<>>
    /\ retry = 0
    /\ timer = 0
    /\ now = 0
    /\ queue = <<>>
    /\ closed = FALSE
    /\ sent = <<>>
    /\ sentAt = <<>>
    /\ slept = <<>>
    /\ result = NoResult
    /\ stale = 0
    /\ gotStale = FALSE
    /\ authSeen = FALSE
    /\ NoRun

\* ------------------------------------------------------------ environment
\* The chat connection pushes a message into incoming_messages.
Deliver ==
    /\ pc # "done"
    /\ ~closed
    /\ Len(queue) < MaxQueue
    /\ \E m \in ServerMessage :
        /\ queue' = Append(queue, m)
        /\ authSeen' = (authSeen \/ (/\ pc \in {"wait", "sleep"}
                                      /\ IsAuthFailure(m)
                                      /\ \A i \in 1..Len(queue) :
                                            ~IsCorrelated(queue[i])))
    /\ UNCHANGED <<pc, message, retry, timer, now, closed, sent, sentAt, slept,
                   result, stale, gotStale>>
    /\ UNCHANGED runVars

\* The chat connection ends: the sender of incoming_messages is dropped.
Close ==
    /\ pc # "done"
    /\ ~closed
    /\ closed' = TRUE
    /\ UNCHANGED <<pc, message, retry, timer, now, queue, sent, sentAt, slept,
                   result, stale, gotStale, authSeen>>
    /\ UNCHANGED runVars

\* ------------------------------------------------------------ communicate
Call ==
    /\ pc = "idle"
    /\ \E m \in Commands : message' = m
    /\ pc' = "send"
    /\ retry' = 0
    /\ UNCHANGED <<timer, now, queue, closed, sent, sentAt, slept, result,
                   stale, gotStale, authSeen>>
    /\ UNCHANGED runVars

\* client.say(...) succeeds; the timeout of wait_for_answer is armed.
Send ==
    /\ pc = "send"
    /\ sent' = Append(sent, message_to_send(message, retry))
    /\ sentAt' = Append(sentAt, now)
    /\ stale' = Len(queue)
    /\ timer' = TIMEOUT_SECS
    /\ pc' = "wait"
    /\ UNCHANGED <<message, retry, now, queue, closed, slept, result, gotStale,
                   authSeen>>
    /\ UNCHANGED runVars

\* client.say(...) fails: map_err(Error::SendMessage)?
SendFail ==
    /\ pc = "send"
    /\ result' = Err("SendMessage")
    /\ pc' = "done"
    /\ UNCHANGED <<message, retry, timer, now, queue, closed, sent, sentAt,
                   slept, stale, gotStale, authSeen>>
    /\ UNCHANGED runVars

Recv_rearm ==
    /\ pc = "wait"
    /\ queue # <<>>
    /\ queue' = Tail(queue)
    /\ stale' = IF stale > 0 THEN stale - 1 ELSE 0
    /\ LET r == wait_for_answer(Head(queue)) IN
        IF r = Continue
        THEN /\ timer' = TIMEOUT_SECS
             /\ UNCHANGED <<pc, result, gotStale>>
        ELSE /\ result' = r
             /\ pc' = "done"
             /\ timer' = 0
             /\ gotStale' = (stale > 0)
    /\ UNCHANGED <<message, retry, now, closed, sent, sentAt, slept, authSeen>>
    /\ UNCHANGED runVars

\* wait_for_answer takes the next buffered message.
Recv ==
    /\ pc = "wait"
    /\ queue # <<>>
    /\ queue' = Tail(queue)
    /\ stale' = IF stale > 0 THEN stale - 1 ELSE 0
    /\ LET r == wait_for_answer(Head(queue)) IN
        IF r = Continue
        THEN UNCHANGED <<pc, result, timer, gotStale>>
        ELSE /\ result' = r
             /\ pc' = "done"
             /\ timer' = 0
             /\ gotStale' = (stale > 0)
    /\ UNCHANGED <<message, retry, now, closed, sent, sentAt, slept, authSeen>>
    /\ UNCHANGED runVars

\* recv() yields None: the stream is closed and its buffer is empty.
RecvNone_retried ==
    /\ pc = "wait"
    /\ queue = <<>>
    /\ closed
    /\ timer' = Backoff(retry)
    /\ pc' = "sleep"
    /\ UNCHANGED <<message, retry, now, queue, closed, sent, sentAt, slept,
                   result, stale, gotStale, authSeen>>
    /\ UNCHANGED runVars

RecvNone_budget ==
    /\ pc = "wait"
    /\ queue = <<>>
    /\ closed
    /\ result' = FailedCommunication(MAX_RETRIES)
    /\ pc' = "done"
    /\ timer' = 0
    /\ UNCHANGED <<message, retry, now, queue, closed, sent, sentAt, slept,
                   stale, gotStale, authSeen>>
    /\ UNCHANGED runVars

RecvNone ==
    /\ pc = "wait"
    /\ queue = <<>>
    /\ closed
    /\ result' = Err("ReceivedNoMessage")
    /\ pc' = "done"
    /\ timer' = 0
    /\ UNCHANGED <<message, retry, now, queue, closed, sent, sentAt, slept,
                   stale, gotStale, authSeen>>
    /\ UNCHANGED runVars

\* A second of the reply timeout passes.
Tick ==
    /\ pc = "wait"
    /\ timer > 0
    /\ timer' = timer - 1
    /\ now' = now + 1
    /\ UNCHANGED <<pc, message, retry, queue, closed, sent, sentAt, slept,
                   result, stale, gotStale, authSeen>>
    /\ UNCHANGED runVars

Timeout_none ==
    /\ pc = "wait"
    /\ timer = 0
    /\ FALSE
    /\ UNCHANGED vars

\* timeout(...) elapses while wait_for_answer is pending on recv().
Timeout ==
    /\ pc = "wait"
    /\ timer = 0
    /\ queue = <<>>
    /\ ~closed
    /\ timer' = Backoff(retry)
    /\ pc' = "sleep"
    /\ UNCHANGED <<message, retry, now, queue, closed, sent, sentAt, slept,
                   result, stale, gotStale, authSeen>>
    /\ UNCHANGED runVars

\* The back off after the last retry of the range is left out: the final
\* Err is returned as soon as that attempt has timed out.
Wake_lastSkipped ==
    /\ pc = "sleep"
    /\ timer' = 0
    /\ IF HasNextRetry(retry)
       THEN /\ now' = now + timer
            /\ slept' = Append(slept, timer)
            /\ retry' = retry + 1
            /\ pc' = "send"
            /\ UNCHANGED result
       ELSE /\ result' = FailedCommunication(MAX_RETRIES)
            /\ pc' = "done"
            /\ UNCHANGED <<now, slept, retry>>
    /\ UNCHANGED <<message, queue, closed, sent, sentAt, stale, gotStale, authSeen>>
    /\ UNCHANGED runVars

\* sleep(duration) elapses; `continue` takes the loop to its next retry, or
\* past its end to Err(FailedCommunication(MAX_RETRIES)).
Wake ==
    /\ pc = "sleep"
    /\ now' = now + timer
    /\ slept' = Append(slept, timer)
    /\ timer' = 0
    /\ IF HasNextRetry(retry)
       THEN /\ retry' = retry + 1
            /\ pc' = "send"
            /\ UNCHANGED result
       ELSE /\ result' = FailedCommunication(MAX_RETRIES)
            /\ pc' = "done"
            /\ UNCHANGED retry
    /\ UNCHANGED <<message, queue, closed, sent, sentAt, stale, gotStale, authSeen>>
    /\ UNCHANGED runVars

Next ==
    \/ Deliver
    \/ Close
    \/ Call
    \/ Send
    \/ SendFail
    \/ Recv
    \/ RecvNone
    \/ Tick
    \/ Timeout
    \/ Wake

Spec == Init /\ [][Next]_vars

\* The steps of communicate are taken when they can be: client.say
\* completes, with Ok or Err; wait_for_answer handles a message that recv()
\* has ready and the end of the stream; the seconds of the timeout pass;
\* sleep elapses. Messages reach the buffer at a finite rate while taking
\* one takes no time, so wait_for_answer catches up with the stream again
\* and again: a Recv that leaves k messages buffered is taken if it is
\* possible again and again, for every k. timeout(...) examines its deadline each time recv() is
\* pending, so once the deadline has passed it fires at one of the moments
\* the buffer is found empty. What the chat connection delivers (Deliver,
\* Close) and whether communicate is called at all is not constrained.
LiveSpec ==
    /\ Init
    /\ [][Next]_vars
    /\ WF_vars(Send \/ SendFail)
    /\ WF_vars(Recv)
    /\ \A k \in 0..MaxQueue : SF_vars(Recv /\ Len(queue') = k)
    /\ WF_vars(RecvNone)
    /\ WF_vars(Tick)
    /\ SF_vars(Timeout)
    /\ WF_vars(Wake)

TypeOK ==
    /\ pc \in {"idle", "send", "wait", "sleep", "done"}
    /\ retry \in 0..MAX_RETRIES
    /\ Len(queue) <= MaxQueue
    /\ Len(sent) <= MAX_RETRIES + 1

\* ------------------------------------------------------------------ claims
\* The chat messages in the order Recv takes them: a step of communicate
\* that consumes the head of the buffer or moves its position.
CommunicateStep == pc' # pc \/ Len(queue') < Len(queue)

\* Once communicate has returned, it sends and sleeps no more.
ReturnedIsFinal ==
    [][pc = "done" => UNCHANGED <<pc, result, sent, slept, retry>>]_vars

\* C1: whatever messages of whatever authors and addressees are delivered,
\* communicate's wait_for_answer returns a body only when the message it
\* took is an ordinary message sent by get_bot_id whose generic-answer
\* username capture is get_username, and the body is that message's text.
C1_OnlyCorrelatedReturned ==
    [][(result'.kind = "Ok" /\ result.kind # "Ok") =>
        /\ pc = "wait"
        /\ queue # <<>>
        /\ Head(queue).kind = "Privmsg"
        /\ Head(queue).sender = USER_ID
        /\ get_generic_answer(Head(queue).text) = Username
        /\ result'.body = Head(queue).text
        /\ queue' = Tail(queue)]_vars

\* A reply was returned on the second attempt with foreign traffic around.
C1_Witness ==
    /\ result.kind = "Ok"
    /\ result.body = ToMe
    /\ Len(sent) = 2
    /\ queue # <<>>
    /\ Head(queue) = Privmsg(OTHER_ID, ToMe)

\* C2: an invocation never sends more than 4 times; a timeout is declared
\* exactly 5 seconds after the send; and an invocation that ends without a
\* reply, an authentication failure, a closed stream or a failed send has
\* sent 4 times (attempts 0..3), timed out 4 times and returns
\* FailedCommunication(3).
C2_FourSendsThenFailed ==
    /\ Len(sent) <= 4
    /\ (pc = "sleep" => now = sentAt[Len(sent)] + 5 /\ Len(sent) = retry + 1)
    /\ (pc = "done" /\ result.kind \notin
            {"Ok", "AuthenticateChatError", "ReceivedNoMessage", "SendMessage"}
         => /\ result = FailedCommunication(3)
            /\ Len(sent) = 4
            /\ Len(slept) = 4
            /\ retry = 3)
    /\ (pc = "done" /\ Len(slept) = 4 => result = FailedCommunication(3))

C2_Witness ==
    /\ pc = "done"
    /\ result = FailedCommunication(3)
    /\ Len(sent) = 4
    /\ ~closed

\* C3: when wait_for_answer of attempt k takes a correlated reply that was
\* delivered after the send of attempt k, communicate returns that reply's
\* body in that step, having made k+1 sends and k backoff sleeps, and
\* afterwards it sends and sleeps no more.
C3_ReplyShortCircuits ==
    /\ [][(/\ pc = "wait"
           /\ queue # <<>>
           /\ stale = 0
           /\ IsCorrelated(Head(queue))
           /\ CommunicateStep)
          => /\ pc' = "done"
             /\ result' = Ok(Head(queue).text)
             /\ Len(sent') = retry + 1
             /\ Len(slept') = retry]_vars
    /\ ReturnedIsFinal

\* A fresh reply was returned on attempt 2: three sends, two sleeps.
C3_Witness ==
    /\ pc = "done"
    /\ result = Ok(ToMe)
    /\ ~gotStale
    /\ retry = 2
    /\ Len(sent) = 3
    /\ Len(slept) = 2

\* C4: only a timeout leads to a retry. An attempt on which wait_for_answer
\* meets a closed stream or an authentication-failure notice, or whose send
\* fails, makes communicate return that error in the same step, with no
\* sleep and no send after it; every retry was preceded by a timeout's
\* backoff sleep.
C4_OnlyTimeoutRetried ==
    /\ [][(pc = "wait" /\ queue = <<>> /\ closed /\ CommunicateStep)
            => result' = Err("ReceivedNoMessage") /\ pc' = "done"]_vars
    /\ [][(pc = "wait" /\ queue # <<>> /\ IsAuthFailure(Head(queue))
                /\ CommunicateStep)
            => result' = Err("AuthenticateChatError") /\ pc' = "done"]_vars
    /\ [][(result.kind = "none" /\ result'.kind \in
                {"ReceivedNoMessage", "AuthenticateChatError", "SendMessage"})
            => pc' = "done" /\ sent' = sent /\ slept' = slept]_vars
    /\ [][pc' = "sleep" /\ pc # "sleep" =>
            pc = "wait" /\ timer = 0 /\ queue = <<>> /\ ~closed]_vars
    /\ [][retry' # retry => pc = "sleep" \/ pc = "idle"]_vars
    /\ [][(pc = "done" /\ result.kind \in
                {"ReceivedNoMessage", "AuthenticateChatError", "SendMessage"})
            => UNCHANGED <<pc, result, sent, slept, retry>>]_vars

\* The stream was found closed on a retry.
C4_Witness ==
    /\ pc = "done"
    /\ result.kind \in {"ReceivedNoMessage", "AuthenticateChatError",
                         "SendMessage"}
    /\ retry = 1
    /\ Len(slept) = 1

\* C5: the i-th backoff sleep (after the timeout of attempt i-1) lasts
\* 4, 8, 16, 32 seconds; each send after the first happens no earlier than
\* the previous send plus the 5-second wait plus that sleep; the sleeps
\* strictly increase.
C5_ExponentialBackoff ==
    /\ \A i \in 1..Len(slept) : slept[i] = <<4, 8, 16, 32>>[i]
    /\ \A i \in 1..Len(slept) : \A j \in 1..Len(slept) :
            i < j => slept[i] < slept[j]
    /\ \A i \in 2..Len(sent) :
            /\ Len(slept) >= i - 1
            /\ sentAt[i] >= sentAt[i - 1] + 5 + slept[i - 1]
    /\ (pc = "sleep" => timer = <<4, 8, 16, 32>>[retry + 1])

C5_Witness ==
    /\ Len(slept) = 4
    /\ Len(sent) = 4
    /\ sentAt = <<0, 9, 22, 43>>

\* C6: the reply communicate returns for an attempt was delivered on the
\* incoming stream after that attempt's command was sent: never a message
\* that was already buffered at the send (one delivered during the backoff
\* sleep of an earlier attempt, or before the first send).
C6_ReplyAfterSend == result.kind = "Ok" => ~gotStale

\* C7: an invocation during whose wait or backoff sleep an authentication-
\* failure notice was delivered ends with AuthenticateChatError (left aside
\* the invocation that a failing send ends first, with SendMessage).
C7_AuthNoticeEndsCall ==
    (pc = "done" /\ authSeen /\ result.kind # "SendMessage")
        => result.kind = "AuthenticateChatError"

\* C8: when wait_for_answer finds the stream closed and drained, no
\* correlated reply found, communicate returns ReceivedNoMessage in that
\* step: not a timeout (no backoff sleep follows), not FailedCommunication,
\* and no send or retry comes after it.
C8_ClosedStreamReported ==
    /\ [][(pc = "wait" /\ queue = <<>> /\ closed /\ CommunicateStep)
            => /\ result' = Err("ReceivedNoMessage")
               /\ result'.kind # "FailedCommunication"
               /\ pc' = "done"
               /\ UNCHANGED <<sent, slept, retry>>]_vars
    /\ [][(result'.kind = "ReceivedNoMessage" /\ result.kind = "none")
            => pc = "wait" /\ queue = <<>> /\ closed]_vars
    /\ [][result.kind = "ReceivedNoMessage"
            => UNCHANGED <<pc, result, sent, slept, retry>>]_vars

\* The stream closed during the backoff after attempt 0; attempt 1 found it.
C8_Witness ==
    /\ pc = "done"
    /\ result = Err("ReceivedNoMessage")
    /\ closed
    /\ Len(sent) = 2
    /\ Len(slept) = 1

\* C9: the count carried by FailedCommunication equals the number of sends
\* the invocation made.
C9_CountIsSends == result.kind = "FailedCommunication" => result.n = Len(sent)

\* C10: the marker alternates over the sends of an invocation, starting
\* with the marker present: sends 1 and 3 are the command followed by
\* U+E0000, sends 2 and 4 are the bare command.
HasMarker(text) == text # <<>> /\ text[Len(text)] = "U+E0000"

C10_MarkerAlternates ==
    /\ \A i \in 1..Len(sent) :
            sent[i] = IF i \in {1, 3} THEN message \o <<"U+E0000">> ELSE message
    /\ \A i \in 1..Len(sent) : HasMarker(sent[i]) <=> i \in {1, 3}
    /\ \A i \in 1..(Len(sent) - 1) : HasMarker(sent[i]) # HasMarker(sent[i + 1])

C10_Witness ==
    /\ Len(sent) = 4
    /\ sent = <<<<"*leaves", "U+E0000">>, <<"*leaves">>,
                <<"*leaves", "U+E0000">>, <<"*leaves">>>>

\* ====================================================== wait_for_answer
\* wait_for_answer on a stream that already holds its messages and stays
\* open: the call made by attempt 0 of communicate(CLAIM_MESSAGE).
MaxStream == 3

Streams == UNION {[1..n -> ServerMessage] : n \in 0..MaxStream}

WaitInit ==
    /\ pc = "wait"
    /\ message = CLAIM_MESSAGE
    /\ retry = 0
    /\ timer = TIMEOUT_SECS
    /\ now = 0
    /\ stream \in Streams
    /\ queue = stream
    /\ closed = FALSE
    /\ sent = <<message_to_send(CLAIM_MESSAGE, 0)>>
    /\ sentAt = <<0>>
    /\ slept = <<>>
    /\ result = NoResult
    /\ stale = 0
    /\ gotStale = FALSE
    /\ authSeen = FALSE
    /\ bot = "none"
    /\ rpc = "off"
    /\ why = ""
    /\ outcome = NoOutcome
    /\ outcomeAt = 0
    /\ runResult = ""
    /\ iter = 0
    /\ iterStart = 0
    /\ oracle = "none"
    /\ present = "none"
    /\ cookieBot = NoCookieBot
    /\ input = <<>>

WaitNext == Recv

WaitSpec == WaitInit /\ [][WaitNext]_vars

\* ================================================= LeafBot::run, EgBot::run
MaxIter == 2

SUSPEND_SECS_short == 60 * 3

SUSPEND_SECS == 60 * 30
CLAIM_COOLDOWN == 3600
EG_WAIT_SECS == 3600
ORACLE_RETRY_SECS == 10

\* The seconds into the reply timeout at which the last attempt's wait ends.
ReplyDelay == {2}

\* The durations get_cooldown reports as Some(duration).
OracleCooldown == {0, 7}

LeafTexts ==
    {LeafGood("+24", "34"), LeafBad("54", "04", "34"),
     LeafGood("+99999999999", "34"), ToMe}

EgTexts ==
    {EgGood("+1", "92"), EgGood("+0", "152"), EgBad("10", "56", "60"),
     EgBadMinutes("50", "30"), EgOther}

\* The bodies wait_for_answer returns for each instance.
LeafReplies == {t \in LeafTexts : get_generic_answer(t) = get_username}
EgReplies == {t \in EgTexts : eg_generic_answer(t) = get_username}

\* One invocation of communicate from call to return. Attempts 0..k-1 time
\* out and back off; attempt k ends the invocation:
\*   "reply"    wait_for_answer returns Ok(body) after delay seconds
\*   "auth"     wait_for_answer returns Err(AuthenticateChatError)
\*   "closed"   wait_for_answer returns Err(ReceivedNoMessage)
\*   "sendfail" client.say fails
\*   "timeout"  attempt k = MAX_RETRIES times out as well
Endings == {"reply", "auth", "closed", "sendfail", "timeout"}

RECURSIVE TimedOutSecs(_)
TimedOutSecs(k) ==
    IF k = 0 THEN 0 ELSE TimedOutSecs(k - 1) + TIMEOUT_SECS + Backoff(k - 1)

Sends(msg, n) == [i \in 1..n |-> message_to_send(msg, i - 1)]
SendTimes(t, n) == [i \in 1..n |-> t + TimedOutSecs(i - 1)]
Backoffs(n) == [i \in 1..n |-> Backoff(i - 1)]

communicate(msg, k, ending, body, delay) ==
    [result |->
        CASE ending = "reply" -> Ok(body)
          [] ending = "auth" -> Err("AuthenticateChatError")
          [] ending = "closed" -> Err("ReceivedNoMessage")
          [] ending = "sendfail" -> Err("SendMessage")
          [] ending = "timeout" -> FailedCommunication(MAX_RETRIES),
     sends |-> IF ending = "sendfail" THEN k ELSE k + 1,
     sleeps |-> IF ending = "timeout" THEN k + 1 ELSE k,
     elapsed |->
        CASE ending = "timeout" -> TimedOutSecs(k + 1)
          [] ending = "sendfail" -> TimedOutSecs(k)
          [] OTHER -> TimedOutSecs(k) + delay]

\* The instance calls communicate(msg) on a fresh connection and it returns.
Communicate(msg, replies) ==
    \E k \in 0..MAX_RETRIES, ending \in Endings, body \in replies,
       delay \in ReplyDelay :
        /\ ending = "timeout" => ~HasNextRetry(k)
        /\ LET c == communicate(msg, k, ending, body, delay) IN
            /\ message' = msg
            /\ retry' = k
            /\ sent' = sent \o Sends(msg, c.sends)
            /\ sentAt' = sentAt \o SendTimes(now, c.sends)
            /\ slept' = slept \o Backoffs(c.sleeps)
            /\ now' = now + c.elapsed
            /\ result' = c.result

\* sleep(duration) begins.
Suspend(duration, reason) ==
    /\ rpc' = "sleep"
    /\ timer' = duration
    /\ why' = reason
    /\ UNCHANGED runResult

Return_retry(e) == Suspend(ORACLE_RETRY_SECS, e)

\* `?` takes the error out of run.
Return(e) ==
    /\ rpc' = "returned"
    /\ runResult' = e
    /\ UNCHANGED <<timer, why>>

\* `continue`, or the end of the loop body: the next iteration begins.
NextIteration(start) ==
    /\ iter < MaxIter
    /\ rpc' = start
    /\ iter' = iter + 1
    /\ iterStart' = Len(sent)
    /\ oracle' = "none"
    /\ present' = "none"

\* The variables of one communicate invocation that the schedulers, which
\* take communicate as one step, leave alone.
stepVars == <<pc, queue, closed, stale, gotStale, authSeen, stream, input>>



RunInit ==
    /\ pc = "idle"
    /\ message = <<>>
    /\ retry = 0
    /\ timer = 0
    /\ now = 0
    /\ queue = <<>>
    /\ closed = FALSE
    /\ sent = <<>>
    /\ sentAt = <<>>
    /\ slept = <<>>
    /\ result = NoResult
    /\ stale = 0
    /\ gotStale = FALSE
    /\ authSeen = FALSE
    /\ stream = <<>>
    /\ \/ bot = "leaf" /\ rpc = "presence"
       \/ bot = "eg" /\ rpc = "oracle"
    /\ why = ""
    /\ outcome = NoOutcome
    /\ outcomeAt = 0
    /\ runResult = ""
    /\ iter = 1
    /\ iterStart = 0
    /\ oracle = "none"
    /\ present = "none"
    /\ cookieBot = NoCookieBot
    /\ input = <<>>

\* --------------------------------------------------------------- LeafBot
\* check_chatters(USER_NAME) at the head of the loop.
LeafCheckChatters ==
    /\ bot = "leaf"
    /\ rpc = "presence"
    /\ \/ /\ present' = "yes"
          /\ rpc' = "claim"
          /\ UNCHANGED <<timer, why, runResult>>
       \/ /\ present' = "no"
          /\ Suspend(SUSPEND_SECS, "absent")
       \/ /\ present' = "error"
          /\ Return("CheckChattersError")
    /\ UNCHANGED <<message, retry, now, sent, sentAt, slept, result, bot,
                   outcome, outcomeAt, iter, iterStart, oracle>>
    /\ UNCHANGED <<stepVars, cookieBot>>

wait_secs_unscaled(minutes, seconds) == UnwrapOr0(seconds) + UnwrapOr0(minutes)

\* secs + mins * 60 of the cooldown arm
wait_secs(minutes, seconds) == UnwrapOr0(seconds) + UnwrapOr0(minutes) * 60

cooldown_deadline_short(t) == t + SUSPEND_SECS

cooldown_deadline(t) == t + CLAIM_COOLDOWN

\* sleep_until(deadline) at time t
sleep_until(deadline, t) == IF deadline > t THEN deadline - t ELSE 0

\* login, claim and the match on its value, up to the sleep that follows.
LeafClaim ==
    /\ bot = "leaf"
    /\ rpc = "claim"
    /\ Communicate(CLAIM_MESSAGE, LeafReplies)
    /\ outcomeAt' = now'
    /\ IF result'.kind # "Ok"
       THEN /\ Return("CommunicationError")
            /\ UNCHANGED outcome
       ELSE LET response == LeafFromStr(result'.body) IN
            /\ outcome' = response
            /\ CASE response.kind = "Err" -> Return("ParseClaimResponse")
                 [] response.kind = "Success" ->
                        Suspend(sleep_until(cooldown_deadline(now'), now'),
                                "success")
                 [] response.kind = "Cooldown" ->
                        Suspend(wait_secs(response.minutes, response.seconds),
                                "cooldown")
    /\ UNCHANGED <<bot, iter, iterStart, oracle, present>>
    /\ UNCHANGED <<stepVars, cookieBot>>

\* The sleep elapses; every sleep of LeafBot::run ends the iteration.
LeafWake ==
    /\ bot = "leaf"
    /\ rpc = "sleep"
    /\ now' = now + timer
    /\ slept' = Append(slept, timer)
    /\ timer' = 0
    /\ why' = ""
    /\ NextIteration("presence")
    /\ UNCHANGED <<message, retry, sent, sentAt, result, bot, outcome,
                   outcomeAt, runResult>>
    /\ UNCHANGED <<stepVars, cookieBot>>

\* ----------------------------------------------------------------- EgBot
\* get_cooldown() at the head of the loop and the match on its value.
OracleActive_nosleep(cooldown) ==
    /\ oracle' = "active"
    /\ rpc' = "presence"
    /\ UNCHANGED <<timer, why, runResult>>

\* Ok(Some(cooldown)): sleep(cooldown), with no `continue` after it.
OracleActive(cooldown) ==
    /\ oracle' = "active"
    /\ Suspend(cooldown, "oracle")

\* Ok(None)
OracleInactive ==
    /\ oracle' = "inactive"
    /\ rpc' = "presence"
    /\ UNCHANGED <<timer, why, runResult>>

OracleError_abort ==
    /\ oracle' = "error"
    /\ Return("GetCooldown")

\* Err(err): sleep(10 s); continue
OracleError ==
    /\ oracle' = "error"
    /\ Suspend(ORACLE_RETRY_SECS, "oracle_error")

EgGetCooldown ==
    /\ bot = "eg"
    /\ rpc = "oracle"
    /\ \/ \E cooldown \in OracleCooldown : OracleActive(cooldown)
       \/ OracleInactive
       \/ OracleError
    /\ UNCHANGED <<message, retry, now, sent, sentAt, slept, result, bot,
                   outcome, outcomeAt, iter, iterStart, present>>
    /\ UNCHANGED <<stepVars, cookieBot>>

\* check_chatters("okayegbot")
EgCheckChatters ==
    /\ bot = "eg"
    /\ rpc = "presence"
    /\ \/ /\ present' = "yes"
          /\ rpc' = "claim"
          /\ UNCHANGED <<timer, why, runResult>>
       \/ /\ present' = "no"
          /\ Suspend(SUSPEND_SECS, "absent")
       \/ /\ present' = "error"
          /\ Return("CheckChatters")
    /\ UNCHANGED <<message, retry, now, sent, sentAt, slept, result, bot,
                   outcome, outcomeAt, iter, iterStart, oracle>>
    /\ UNCHANGED <<stepVars, cookieBot>>

\* login, claim_egs and the match on its value, up to the sleep that follows.
EgClaim ==
    /\ bot = "eg"
    /\ rpc = "claim"
    /\ Communicate(EG_MESSAGE, EgReplies)
    /\ outcomeAt' = now'
    /\ IF result'.kind # "Ok"
       THEN /\ Return("Communication")
            /\ UNCHANGED outcome
       ELSE LET response == EgFromStr(result'.body) IN
            /\ outcome' = response
            /\ CASE response.kind = "Err" -> Return("ParseClaimEgs")
                 [] response.kind = "Success" ->
                        Suspend(EG_WAIT_SECS, "success")
                 [] response.kind = "Failure" ->
                        Suspend(wait_secs(response.minutes, response.seconds),
                                "cooldown")
    /\ UNCHANGED <<bot, iter, iterStart, oracle, present>>
    /\ UNCHANGED <<stepVars, cookieBot>>

\* The sleep elapses. After the sleep for the oracle's cooldown the loop
\* body goes on to the presence check; every other sleep ends the iteration.
EgWake ==
    /\ bot = "eg"
    /\ rpc = "sleep"
    /\ now' = now + timer
    /\ slept' = Append(slept, timer)
    /\ timer' = 0
    /\ why' = ""
    /\ IF why = "oracle"
       THEN /\ rpc' = "presence"
            /\ UNCHANGED <<iter, iterStart, oracle, present>>
       ELSE NextIteration("oracle")
    /\ UNCHANGED <<message, retry, sent, sentAt, result, bot, outcome,
                   outcomeAt, runResult>>
    /\ UNCHANGED <<stepVars, cookieBot>>

RunNext ==
    \/ LeafCheckChatters
    \/ LeafClaim
    \/ LeafWake
    \/ EgGetCooldown
    \/ EgCheckChatters
    \/ EgClaim
    \/ EgWake

RunSpec == RunInit /\ [][RunNext]_vars

\* ======================================= thepositivebot: Bot::main_loop
\* The attempt of communicate on which the reply arrives.
CookieReplyAttempts == {0, 1}

\* get_cookie_cd's Some(duration), in whole seconds.
CookieCooldown == {7037}

COOKIE_MESSAGE == <<"!cookie">>
CDR_MESSAGE == <<"!cdr">>
PRESTIGE_MESSAGE == <<"!prestige">>

CDR_THRESHOLD == 7
PRESTIGE_THRESHOLD == 5000

\* The values claim_cookies returns as Ok(...): amount and total of a
\* Success, and Cooldown.
ClaimCookieResponse ==
    {Success("cookie", 0, 100), Success("cookie", 8, 100),
     Success("cookie", 8, 5000), Cooldown("", <<>>, <<>>, 100)}

\* say: the marker is appended when send_byte is set; send_byte toggles.
say(msg, send_byte) == IF send_byte THEN msg \o <<MARKER>> ELSE msg

\* send_byte left as it was by every send.
Toggled_stuck(send_byte, n) == send_byte

\* send_byte after n sends: toggle() flips it once per send.
Toggled(send_byte, n) == IF n % 2 = 0 THEN send_byte ELSE ~send_byte

CookieSends(msg, send_byte, n) ==
    [i \in 1..n |-> say(msg, Toggled(send_byte, i - 1))]

\* One invocation of thepositivebot's communicate(msg) from call to return:
\* attempts 0..k-1 time out and back off, attempt k gets a reply ("reply"),
\* fails in say or next_message ("error"), or, being the last, times out
\* as well ("timeout"). It leaves ok' and the sends, the time and send_byte.
\* stream holds, by the command they answer, the replies of the target bot
\* that the runner has received and no wait_for_answer has read yet:
\* wait_for_answer returns the first of them as soon as it is polled, and
\* a reply that comes in after the invocation has returned (late) stays
\* there for the next invocation.
CookieCommunicate(msg, ok) ==
    \E k \in 0..MAX_RETRIES, ending \in {"reply", "error", "timeout"},
       late \in BOOLEAN :
        /\ ending = "reply" => k \in CookieReplyAttempts
        /\ ending = "timeout" => ~HasNextRetry(k)
        /\ stream # <<>> => k = 0 /\ ending # "timeout"
        /\ late => ending = "reply" /\ (k > 0 \/ stream # <<>>)
        /\ gotStale' = (ending = "reply" /\ stream # <<>>)
        /\ stream' = (IF ending = "reply" /\ stream # <<>>
                      THEN Tail(stream) ELSE stream)
                     \o (IF late THEN <<msg>> ELSE <<>>)
        /\ LET n == k + 1
               sleeps == IF ending = "timeout" THEN k + 1 ELSE k
           IN
            /\ message' = msg
            /\ retry' = k
            /\ sent' = sent \o CookieSends(msg, cookieBot.send_byte, n)
            /\ sentAt' = sentAt \o SendTimes(now, n)
            /\ slept' = slept \o Backoffs(sleeps)
            /\ now' = now + TimedOutSecs(sleeps)
            /\ cookieBot' = [cookieBot EXCEPT
                                !.send_byte = Toggled(cookieBot.send_byte, n)]
            /\ ok = (ending = "reply")
            /\ result' = CASE ending = "reply" -> Ok(<<>>)
                           [] ending = "error" -> Err("Quitting")
                           [] ending = "timeout" -> FailedCommunication(MAX_RETRIES)

\* The reply communicate(msg) returns was buffered before the call and
\* answers another command: the patterns of msg do not match it.
AnswersOther(msg) == gotStale' /\ stream[1] # msg

CookieInit ==
    /\ pc = "idle"
    /\ message = <<>>
    /\ retry = 0
    /\ timer = 0
    /\ now = 0
    /\ queue = <<>>
    /\ closed = FALSE
    /\ sent = <<>>
    /\ sentAt = <<>>
    /\ slept = <<>>
    /\ result = NoResult
    /\ stale = 0
    /\ gotStale = FALSE
    /\ authSeen = FALSE
    /\ stream = <<>>
    /\ bot = "cookie"
    /\ rpc = "oracle"
    /\ why = ""
    /\ outcome = NoOutcome
    /\ outcomeAt = 0
    /\ runResult = ""
    /\ iter = 1
    /\ iterStart = 0
    /\ oracle = "none"
    /\ present = "none"
    /\ \E booster_mode \in BOOLEAN :
        cookieBot = [send_byte |-> FALSE, booster_mode |-> booster_mode,
                     connected |-> TRUE]
    /\ input = <<>>

\* The loop body goes on at another position.
Goto(position) ==
    /\ rpc' = position
    /\ UNCHANGED <<timer, why, runResult, iter, iterStart, oracle>>

\* `?` takes the error out of main_loop.
CookieReturn(e) ==
    /\ Return(e)
    /\ UNCHANGED <<iter, iterStart, oracle>>

\* `continue`, or the end of the loop body: the next iteration begins with
\* wait_for_cooldown.
CookieContinue ==
    /\ iter < MaxIter
    /\ rpc' = "oracle"
    /\ iter' = iter + 1
    /\ iterStart' = Len(sent')
    /\ oracle' = "none"
    /\ UNCHANGED <<timer, why, runResult>>

\* wait_for_cooldown up to its sleep: get_cookie_cd()? and, when a cooldown
\* is active, the end of the chat connection and Timer::after(duration).
wait_for_cooldown ==
    /\ bot = "cookie"
    /\ rpc = "oracle"
    /\ \/ /\ oracle' = "error"
          /\ Return("get_cookie_cd")
          /\ UNCHANGED cookieBot
       \/ /\ oracle' = "inactive"
          /\ rpc' = "claim"
          /\ UNCHANGED <<timer, why, runResult, cookieBot>>
       \/ \E duration \in CookieCooldown :
            /\ oracle' = "active"
            /\ cookieBot' = [cookieBot EXCEPT !.connected = FALSE]
            /\ Suspend(duration, "oracle")
    /\ UNCHANGED <<message, retry, now, sent, sentAt, slept, result, bot,
                   outcome, outcomeAt, iter, iterStart, present>>
    /\ UNCHANGED stepVars

\* The sleep elapses and a failed reconnect is passed over: main_loop goes
\* on to claim_cookies with the runner that was told to quit.
reconnect_ignored ==
    /\ bot = "cookie"
    /\ rpc = "sleep"
    /\ now' = now + timer
    /\ slept' = Append(slept, timer)
    /\ timer' = 0
    /\ why' = ""
    /\ rpc' = "claim"
    /\ \E replaced \in BOOLEAN :
        /\ cookieBot' = [cookieBot EXCEPT !.connected = replaced]
        /\ stream' = IF replaced THEN <<>> ELSE stream
    /\ UNCHANGED <<message, retry, sent, sentAt, result, bot, outcome,
                   outcomeAt, runResult, iter, iterStart, oracle, present>>
    /\ UNCHANGED <<pc, queue, closed, stale, gotStale, authSeen, input>>

\* The sleep of wait_for_cooldown elapses; reconnect()?
reconnect ==
    /\ bot = "cookie"
    /\ rpc = "sleep"
    /\ now' = now + timer
    /\ slept' = Append(slept, timer)
    /\ timer' = 0
    /\ why' = ""
    /\ \/ /\ cookieBot' = [cookieBot EXCEPT !.connected = TRUE]
          /\ stream' = <<>>
          /\ rpc' = "claim"
          /\ UNCHANGED runResult
       \/ /\ rpc' = "returned"
          /\ runResult' = "reconnect"
          /\ UNCHANGED <<cookieBot, stream>>
    /\ UNCHANGED <<message, retry, sent, sentAt, result, bot, outcome,
                   outcomeAt, iter, iterStart, oracle, present>>
    /\ UNCHANGED <<pc, queue, closed, stale, gotStale, authSeen, input>>

\* What follows the cooldown reduction in the Success arm: the booster
\* branch, or prestige from PRESTIGE_THRESHOLD cookies on, or the end of
\* the loop body.
AfterCdr(response) ==
    IF cookieBot.booster_mode
    THEN CookieReturn("unreachable")
    ELSE IF response.total >= PRESTIGE_THRESHOLD
         THEN Goto("prestige")
         ELSE CookieContinue

\* claim_cookies()? and the match on its value.
claim_cookies ==
    /\ bot = "cookie"
    /\ rpc = "claim"
    /\ \E ok \in BOOLEAN, parsed \in BOOLEAN, response \in ClaimCookieResponse :
        /\ CookieCommunicate(COOKIE_MESSAGE, ok)
        /\ AnswersOther(COOKIE_MESSAGE) => ~parsed
        /\ outcomeAt' = now'
        /\ IF ~ok
           THEN CookieReturn("communicate") /\ UNCHANGED outcome
           ELSE IF ~parsed
           THEN CookieReturn("parse") /\ outcome' = ParseErr("InvalidInput")
           ELSE /\ outcome' = response
                /\ CASE response.kind = "Cooldown" -> CookieContinue
                     [] response.kind = "Success" /\ response.amount > CDR_THRESHOLD ->
                            Goto("buy_cdr")
                     [] OTHER -> AfterCdr(response)
    /\ UNCHANGED <<bot, present>>
    /\ UNCHANGED <<pc, queue, closed, stale, authSeen, input>>

\* buy_cdr()?: request("!cdr", ...) and `continue` when the cooldown was
\* reset.
buy_cdr ==
    /\ bot = "cookie"
    /\ rpc = "buy_cdr"
    /\ \E ok \in BOOLEAN, reset \in {"true", "false", "no regex matched"} :
        /\ CookieCommunicate(CDR_MESSAGE, ok)
        /\ AnswersOther(CDR_MESSAGE) => reset = "no regex matched"
        /\ IF ~ok THEN CookieReturn("communicate")
           ELSE CASE reset = "no regex matched" -> CookieReturn("request")
                  [] reset = "true" -> CookieContinue
                  [] reset = "false" -> AfterCdr(outcome)
    /\ UNCHANGED <<bot, outcome, outcomeAt, present>>
    /\ UNCHANGED <<pc, queue, closed, stale, authSeen, input>>

\* prestige()?: request("!prestige", ...); the loop body ends.
prestige ==
    /\ bot = "cookie"
    /\ rpc = "prestige"
    /\ \E ok \in BOOLEAN, done \in {"true", "false", "no regex matched"} :
        /\ CookieCommunicate(PRESTIGE_MESSAGE, ok)
        /\ AnswersOther(PRESTIGE_MESSAGE) => done = "no regex matched"
        /\ IF ~ok THEN CookieReturn("communicate")
           ELSE IF done = "no regex matched" THEN CookieReturn("request")
           ELSE CookieContinue
    /\ UNCHANGED <<bot, outcome, outcomeAt, present>>
    /\ UNCHANGED <<pc, queue, closed, stale, authSeen, input>>

CookieNext ==
    \/ wait_for_cooldown
    \/ reconnect
    \/ claim_cookies
    \/ buy_cdr
    \/ prestige

CookieSpec == CookieInit /\ [][CookieNext]_vars

\* --------------------------------------------------- the classifiers alone
\* A classifier is called with a text made of at most MaxTexts replies, one
\* after the other, and returns.
MaxTexts == 2

LeafBase ==
    {LeafGood(a, t) : a \in {"+24", "-3", "+0"}, t \in {"34", "-5"}}
    \cup {LeafBad("54", "04", "34"), LeafBad("10", "56", "-5"),
          LeafBadSeconds("04", "34"), LeafGood("+99999999999", "34"), ToMe}

EgBase ==
    {EgGood(a, t) : a \in {"+1", "+0", "-3"}, t \in {"92", "152"}}
    \cup {EgBad("10", "56", "60"), EgBadMinutes("50", "30"),
          EgBadSeconds("56", "60"), EgOther}

CookieRanks == {<<"default">>, <<"Gold">>, <<"P6:", "default">>, <<"P1:", "Gold">>}

CookieBase ==
    {CookieGood(r, a, "31") : r \in CookieRanks, a \in {"+6", "-6", "±0"}}
    \cup {CookieBad(r, "79") : r \in CookieRanks}
    \cup {CookieGood(<<"P6:", "default">>, "x5", "84"),
          <<"[Cookies]", "[", "default", "]", "me">>}

RECURSIVE Concats(_, _)
Concats(Base, n) ==
    IF n = 0 THEN {<<>>}
    ELSE {a \o b : a \in Base, b \in Concats(Base, n - 1)}

Inputs(Base) == UNION {Concats(Base, n) : n \in 0..MaxTexts}

ParseInit ==
    /\ pc = "idle"
    /\ message = <<>>
    /\ retry = 0
    /\ timer = 0
    /\ now = 0
    /\ queue = <<>>
    /\ closed = FALSE
    /\ sent = <<>>
    /\ sentAt = <<>>
    /\ slept = <<>>
    /\ result = NoResult
    /\ stale = 0
    /\ gotStale = FALSE
    /\ authSeen = FALSE
    /\ stream = <<>>
    /\ rpc = "parse"
    /\ why = ""
    /\ outcome = NoOutcome
    /\ outcomeAt = 0
    /\ runResult = ""
    /\ iter = 0
    /\ iterStart = 0
    /\ oracle = "none"
    /\ present = "none"
    /\ cookieBot = NoCookieBot
    /\ \/ bot = "leaf" /\ input \in Inputs(LeafBase)
       \/ bot = "eg" /\ input \in Inputs(EgBase)
       \/ bot = "cookie" /\ input \in Inputs(CookieBase)
       \/ bot = "main" /\ input \in Inputs(CookieBase)

\* The classifier returns value.
Parsed(value) ==
    /\ rpc = "parse"
    /\ rpc' = "parsed"
    /\ outcome' = value
    /\ UNCHANGED <<pc, message, retry, timer, now, queue, closed, sent, sentAt,
                   slept, result, stale, gotStale, authSeen, stream, bot, why,
                   outcomeAt, runResult, iter, iterStart, oracle, present,
                   cookieBot, input>>

ParseLeaf == bot = "leaf" /\ Parsed(LeafFromStr(input))
ParseEg == bot = "eg" /\ Parsed(EgFromStr(input))
ParseCookie == bot = "cookie" /\ Parsed(CookieFromStr(input))
ParseMainCookie == bot = "main" /\ Parsed(main_claim_cookies(input))

ParseNext ==
    \/ ParseLeaf
    \/ ParseEg
    \/ ParseCookie
    \/ ParseMainCookie

ParseSpec == ParseInit /\ [][ParseNext]_vars

\* ------------------------------------------- one attempt and its deadline
\* communicate has sent the command of attempt 0 and waits under
\* timeout(5 s): wait_for_answer takes the messages of the stream, each at
\* any moment of the wait, while the seconds pass.
DeadlineNext ==
    \/ Recv
    \/ Tick
    \/ Timeout

DeadlineSpec == WaitInit /\ [][DeadlineNext]_vars

\* ------------------------------------------------------------------ claims
\* The step-by-step invocation of Spec returns only what communicate(...)
\* above describes: with k timed-out attempts before the ending one, k or
\* k + 1 sends with the texts of Sends at the times of SendTimes, the
\* backoffs of Backoffs, and the elapsed time.
CommunicateSummary ==
    /\ sent = Sends(message, Len(sent))
    /\ sentAt = SendTimes(0, Len(sent))
    /\ slept = Backoffs(Len(slept))
    /\ pc = "done" =>
        \E ending \in Endings, delay \in 0..TIMEOUT_SECS :
            LET c == communicate(message, retry, ending, result.body, delay) IN
            /\ ending = "timeout" => ~HasNextRetry(retry)
            /\ result = c.result
            /\ Len(sent) = c.sends
            /\ Len(slept) = c.sleeps
            /\ now = c.elapsed

\* The scheduler's own step: a claim has returned.
ClaimReturned == rpc = "claim" /\ rpc' # "claim"

\* The scheduler's sleep has elapsed.
Woke == rpc = "sleep" /\ rpc' # "sleep"

\* Once run has returned, nothing is sent and no iteration begins.
RunReturnedIsFinal ==
    [][rpc = "returned" => UNCHANGED <<rpc, runResult, sent, iter, now>>]_vars

TerminalErrors ==
    {"AuthenticateChatError", "ReceivedNoMessage", "FailedCommunication",
     "SendMessage"}

\* C13: in LeafBot::run and EgBot::run a terminal error of communicate
\* (AuthenticateChatError, ReceivedNoMessage, FailedCommunication,
\* SendMessage) makes run return an error, after which the instance sends
\* nothing and begins no iteration.
C13_CommunicateErrorEndsRun ==
    /\ [][(ClaimReturned /\ result'.kind \in TerminalErrors) =>
            /\ rpc' = "returned"
            /\ runResult' \in {"CommunicationError", "Communication"}]_vars
    /\ RunReturnedIsFinal

C13_Witness ==
    /\ bot = "eg"
    /\ rpc = "returned"
    /\ runResult = "Communication"
    /\ result.kind = "AuthenticateChatError"
    /\ iter = 2
    /\ Len(sent) = 3

\* C11 as stated: two consecutive sends of an instance never carry the same
\* outgoing text, the last send of one communicate invocation and the first
\* send of the next included. (An instance sends one command text only.)
C11_ConsecutiveSendsDiffer ==
    \A i \in 1..(Len(sent) - 1) : sent[i] # sent[i + 1]

\* The first correlated message of the stream, 0 when there is none.
FirstCorrelated ==
    Leftmost({j \in 1..Len(stream) : IsCorrelated(stream[j])})

\* C12: on a stream that stays open and holds no authentication-failure
\* notice before its first correlated message (an ordinary message of the
\* expected bot id addressed to the own username), wait_for_answer returns
\* the body of that message: it consumes the earlier messages without
\* returning, and returns when it takes that one.
C12_FirstCorrelatedReturned ==
    LET first == FirstCorrelated
        taken == Len(stream) - Len(queue)
    IN  (/\ first # 0
         /\ \A i \in 1..(first - 1) :
                ~(stream[i].kind = "Notice" /\ stream[i].text = AUTH_FAILED_TEXT))
        => /\ taken <= first
           /\ queue = SubSeq(stream, taken + 1, Len(stream))
           /\ taken < first => pc = "wait" /\ result = NoResult
           /\ taken = first => pc = "done" /\ result = Ok(stream[first].text)

C12_Witness ==
    /\ stream = <<Privmsg(OTHER_ID, ToMe), Notice(<<"Login unsuccessful">>),
                  Privmsg(USER_ID, ToMe)>>
    /\ pc = "done"
    /\ queue = <<>>
    /\ result = Ok(ToMe)

\* Neither CLAIM_GOOD nor CLAIM_BAD of the instance matches the text.
NoRuleMatches(b, text) ==
    IF b = "leaf"
    THEN \A i \in 1..Len(text) : ~LeafGoodAt(text, i) /\ ~LeafBadAt(text, i)
    ELSE \A i \in 1..Len(text) : ~EgGoodAt(text, i) /\ ~EgBadAt(text, i)

\* C14: a correlated reply whose body matches neither the success rule nor
\* the cooldown rule ends the claim with the parse error InvalidMessage; the
\* command is not sent again after that reply, and run returns the error.
C14_UnclassifiedReplyIsTerminal ==
    /\ [][(/\ ClaimReturned
           /\ result'.kind = "Ok"
           /\ NoRuleMatches(bot, result'.body)) =>
            /\ outcome'.kind = "Err"
            /\ outcome'.err = "InvalidMessage"
            /\ rpc' = "returned"
            /\ runResult' \in {"ParseClaimResponse", "ParseClaimEgs"}
            /\ Len(sent') = Len(sent) + retry' + 1]_vars
    /\ [][rpc = "returned" => UNCHANGED <<rpc, runResult, sent, result, outcome>>]_vars

C14_Witness ==
    /\ bot = "leaf"
    /\ rpc = "returned"
    /\ runResult = "ParseClaimResponse"
    /\ result = Ok(ToMe)
    /\ outcome.err = "InvalidMessage"
    /\ retry = 1
    /\ Len(sent) = 2

\* The position at which an iteration of the instance's loop begins.
LoopHead == IF bot = "leaf" THEN "presence" ELSE "oracle"

\* C15: when the presence check reports the target bot absent, the loop
\* sends nothing in that iteration, sleeps 30 minutes and begins the next
\* iteration at the head of the loop.
C15_AbsentSuspends ==
    /\ [][(rpc = "presence" /\ present' = "no") =>
            /\ rpc' = "sleep"
            /\ timer' = 30 * 60
            /\ sent' = sent
            /\ Len(sent) = iterStart]_vars
    /\ [][(Woke /\ present = "no") =>
            /\ now' = now + 30 * 60
            /\ sent' = sent
            /\ Len(sent) = iterStart
            /\ iter' = iter + 1
            /\ rpc' = LoopHead]_vars

C15_Witness ==
    /\ bot = "eg"
    /\ iter = 2
    /\ rpc = "oracle"
    /\ slept = <<1800>>
    /\ now = 1800
    /\ sent = <<>>

\* The outgoing text without the marker.
Unmarked(text) ==
    IF HasMarker(text) THEN SubSeq(text, 1, Len(text) - 1) ELSE text

C17_HourAfterSuccess ==
    /\ [][(outcome.kind = "Success" /\ sent' # sent) =>
            \A i \in (Len(sent) + 1)..Len(sent') :
                sentAt'[i] >= outcomeAt + 3600]_vars
    /\ [][(ClaimReturned /\ result'.kind = "Ok" /\ outcome'.kind = "Success") =>
            rpc' = "sleep" /\ outcomeAt' = now']_vars
    /\ [][(Woke /\ why = "success" /\ bot = "leaf") =>
            now' = outcomeAt + 3600]_vars

C17_Witness ==
    /\ bot = "leaf"
    /\ iter = 2
    /\ outcome.kind = "Success"
    /\ outcomeAt > 3600
    /\ slept = <<3600>>
    /\ sentAt = <<0, 3602>>

\* C18 as stated: when the oracle reports an active cooldown the loop
\* sleeps, then restarts the iteration with a new oracle query, and sends
\* nothing in that iteration.
C18_OracleCooldownRestarts ==
    /\ [][(Woke /\ why = "oracle") => rpc' = "oracle" /\ iter' = iter + 1]_vars
    /\ [][oracle = "active" => sent' = sent]_vars

\* C18, amended: when the oracle reports an active cooldown the loop sends
\* nothing before it has slept for the reported duration; the same
\* iteration then goes on to the presence check, and to the claim, without
\* querying the oracle again.
C18_OracleCooldownThenClaim ==
    /\ [][(rpc = "oracle" /\ oracle' = "active") =>
            /\ rpc' = "sleep"
            /\ timer' \in OracleCooldown
            /\ sent' = sent]_vars
    /\ [][(Woke /\ why = "oracle") =>
            /\ now' = now + timer
            /\ sent' = sent
            /\ Len(sent) = iterStart
            /\ rpc' = "presence"
            /\ iter' = iter
            /\ oracle' = "active"]_vars
    /\ [][(oracle = "active" /\ sent' # sent) => rpc = "claim"]_vars

C18_Witness ==
    /\ bot = "eg"
    /\ oracle = "active"
    /\ iter = 1
    /\ slept = <<7>>
    /\ sentAt = <<7>>
    /\ outcome.kind = "Success"

\* C19: a failed oracle query does not end the loop and leads to no send in
\* that iteration: the loop sleeps 10 seconds and queries the oracle again,
\* any number of times in a row, and communicate is not called.
C19_OracleErrorRetried ==
    /\ [][(rpc = "oracle" /\ oracle' = "error") =>
            /\ rpc' = "sleep"
            /\ timer' = 10
            /\ runResult' = ""
            /\ UNCHANGED <<sent, retry, result>>]_vars
    /\ [][(Woke /\ oracle = "error") =>
            /\ now' = now + 10
            /\ rpc' = "oracle"
            /\ iter' = iter + 1
            /\ Len(sent) = iterStart
            /\ UNCHANGED <<sent, retry, result>>]_vars

C19_Witness ==
    /\ bot = "eg"
    /\ iter = 2
    /\ oracle = "error"
    /\ rpc = "sleep"
    /\ slept = <<10>>
    /\ now = 10
    /\ sent = <<>>
    /\ result = NoResult

\* C20 as stated: in thepositivebot's main_loop a failed cooldown-oracle
\* query is retried after a delay and does not end the loop.
C20_CookieOracleErrorRetried ==
    [][(bot = "cookie" /\ rpc = "oracle" /\ oracle' = "error") =>
        rpc' = "sleep" /\ runResult' = ""]_vars

\* C21: a success-shaped reply whose amount is '+0' classifies to a Success
\* outcome with amount 0 and is scheduled like every other Success: the
\* one-hour wait follows, run does not return an error, and after the wait
\* the next iteration begins.
C21_ZeroAmountIsSuccess ==
    /\ [][(/\ ClaimReturned
           /\ bot = "eg"
           /\ result'.kind = "Ok"
           /\ result'.body = EgGood("+0", "152")) =>
            /\ outcome' = Success("me", 0, 152)
            /\ rpc' = "sleep"
            /\ timer' = 3600
            /\ why' = "success"
            /\ runResult' = runResult]_vars
    /\ [][(Woke /\ why = "success" /\ outcome.amount = 0) =>
            /\ now' = now + 3600
            /\ iter' = iter + 1
            /\ rpc' = LoopHead
            /\ runResult' = runResult]_vars

C21_Witness ==
    /\ bot = "eg"
    /\ iter = 2
    /\ rpc = "oracle"
    /\ outcome = Success("me", 0, 152)
    /\ slept = <<3600>>
    /\ now = outcomeAt + 3600
    /\ runResult = ""

\* The success rule, and the cooldown rule, of the classifier of b matches
\* the text somewhere.
MatchesGood(b, text) ==
    \E i \in 1..Len(text) :
        CASE b = "leaf" -> LeafGoodAt(text, i)
          [] b = "eg" -> EgGoodAt(text, i)
          [] b = "cookie" -> CookieGoodAt(text, i, TRUE)
          [] b = "main" -> CookieGoodAt(text, i, FALSE)
MatchesBad(b, text) ==
    \E i \in 1..Len(text) :
        CASE b = "leaf" -> LeafBadAt(text, i)
          [] b = "eg" -> EgBadAt(text, i)
          [] b = "cookie" -> CookieBadAt(text, i, TRUE)
          [] b = "main" -> CookieBadAt(text, i, FALSE)

\* The cooldown variant and the no-match error of each classifier.
CooldownKind(b) == IF b = "eg" THEN "Failure" ELSE "Cooldown"
NoMatchError(b) == IF b = "cookie" THEN "InvalidInput" ELSE "InvalidMessage"

\* C22 as stated: ClaimResponse::from_str, ClaimEgs::from_str and
\* ClaimCookieResponse::from_str classify a text that matches the success
\* rule as Success, whether or not it matches the cooldown rule too; a text
\* that matches only the cooldown rule as the cooldown variant; and a text
\* that matches neither as the no-match error.
C22_SuccessRuleFirst ==
    (rpc = "parsed" /\ bot \in {"leaf", "eg", "cookie"}) =>
        /\ MatchesGood(bot, input) => outcome.kind = "Success"
        /\ (~MatchesGood(bot, input) /\ MatchesBad(bot, input)) =>
                outcome.kind = CooldownKind(bot)
        /\ (~MatchesGood(bot, input) /\ ~MatchesBad(bot, input)) =>
                outcome = ParseErr(NoMatchError(bot))

\* The reply of the cookie grammar's claim_good1, "[Cookies] [default] ...
\* (+6) ... 31 total!", has been classified.
C22_FailingInput ==
    /\ rpc = "parsed"
    /\ bot = "cookie"
    /\ input = CookieGood(<<"default">>, "+6", "31")
    /\ outcome = ParseErr("MissingP")

\* The number a signed numeral writes, and its count of digits.
SignedValue(cs) ==
    IF cs[1] = "-" THEN 0 - DigitsValue(Tail(cs))
    ELSE IF cs[1] \in {"+", "±"} THEN DigitsValue(Tail(cs))
    ELSE DigitsValue(cs)
DigitCount(cs) == IF cs[1] \in Digit THEN Len(cs) ELSE Len(cs) - 1

\* The text is one success-shaped reply of the grammar of b to "me".
SuccessShaped(b, text) ==
    /\ Len(text) = 10
    /\ IF b = "leaf"
       THEN /\ text = LeafGood(text[6], text[9])
            /\ IsSigned(NumChars(text[6]))
            /\ IsOptMinus(NumChars(text[9]))
       ELSE /\ text = EgGood(text[5], text[9])
            /\ IsSigned(NumChars(text[5]))
            /\ IsDigits(NumChars(text[9]))
AmountOf(b, text) == NumChars(text[IF b = "leaf" THEN 6 ELSE 5])
TotalOf(b, text) == NumChars(text[9])

\* Every numeral of at most I32_SAFE_DIGITS digits is within i32.
I32_SAFE_DIGITS == 9

\* C23 as stated: every success-shaped reply of the leaves and egs grammars
\* to user u with signed amount a and total t is classified as
\* Success{u, a, t}, sign and magnitude of a kept.
C23_SuccessFieldsKept ==
    (rpc = "parsed" /\ bot \in {"leaf", "eg"} /\ SuccessShaped(bot, input)) =>
        /\ outcome.kind = "Success"
        /\ outcome = Success("me", SignedValue(AmountOf(bot, input)),
                             SignedValue(TotalOf(bot, input)))

\* C23, amended: the same for the success-shaped replies whose amount and
\* total are within the range of i32, the type of both fields.
C23_SuccessFieldsKeptInRange ==
    (/\ rpc = "parsed"
     /\ bot \in {"leaf", "eg"}
     /\ SuccessShaped(bot, input)
     /\ DigitCount(AmountOf(bot, input)) <= I32_SAFE_DIGITS
     /\ DigitCount(TotalOf(bot, input)) <= I32_SAFE_DIGITS) =>
        outcome = Success("me", SignedValue(AmountOf(bot, input)),
                          SignedValue(TotalOf(bot, input)))

C23_Witness ==
    /\ rpc = "parsed"
    /\ bot = "leaf"
    /\ input = LeafGood("-3", "-5")
    /\ outcome = Success("me", 0 - 3, 0 - 5)

\* The text is one cooldown-shaped reply of the grammar of b to "me" that
\* states minutes and seconds.
CooldownShapedBoth(b, text) ==
    IF b = "leaf"
    THEN /\ Len(text) = 10
         /\ text = LeafBad(text[5], text[7], text[9])
         /\ IsDigits(NumChars(text[5]))
         /\ IsDigits(NumChars(text[7]))
         /\ IsOptMinus(NumChars(text[9]))
    ELSE /\ Len(text) = 8
         /\ text = EgBad(text[3], text[5], text[8])
         /\ IsDigits(NumChars(text[3]))
         /\ IsDigits(NumChars(text[5]))
         /\ IsDigits(NumChars(text[8]))
MinutesOf(b, text) == NumChars(text[IF b = "leaf" THEN 5 ELSE 3])
SecondsOf(b, text) == NumChars(text[IF b = "leaf" THEN 7 ELSE 5])
CooldownTotalOf(b, text) == NumChars(text[IF b = "leaf" THEN 9 ELSE 8])

MinutesOnly(text) ==
    /\ Len(text) = 6
    /\ text = EgBadMinutes(text[3], text[6])
    /\ IsDigits(NumChars(text[3]))
    /\ IsDigits(NumChars(text[6]))

SecondsOnly(b, text) ==
    IF b = "leaf"
    THEN /\ Len(text) = 9
         /\ text = LeafBadSeconds(text[6], text[8])
         /\ IsDigits(NumChars(text[6]))
    ELSE /\ Len(text) = 6
         /\ text = EgBadSeconds(text[3], text[6])
         /\ IsDigits(NumChars(text[3]))

\* C26 as stated: a cooldown-shaped reply that states only the seconds is
\* classified as the cooldown variant, and the wait derived from it has zero
\* minutes: it equals the stated seconds.
C26_SecondsOnly ==
    (rpc = "parsed" /\ bot \in {"leaf", "eg"} /\ SecondsOnly(bot, input)) =>
        /\ outcome.kind = CooldownKind(bot)
        /\ UnwrapOr0(outcome.minutes) = 0
        /\ wait_secs(outcome.minutes, outcome.seconds)
             = DigitsValue(NumChars(input[IF bot = "leaf" THEN 6 ELSE 3]))

\* C27 as stated: every reply that matches the cookie grammar's CLAIM_GOOD
\* or CLAIM_BAD is classified by ClaimCookieResponse::from_str as Success or
\* Cooldown, the replies with a rank bracket without prestige prefix or with
\* a capitalised rank name included.
C27_CookieMatchClassifies ==
    (/\ rpc = "parsed"
     /\ bot = "cookie"
     /\ (MatchesGood("cookie", input) \/ MatchesBad("cookie", input))) =>
        outcome.kind \in {"Success", "Cooldown"}

\* The text is one cookie success reply whose amount is written +n, -n or ±n.
CookieSuccessShaped(text) ==
    LET r == CookieRankLen(text, 3, TRUE) IN
    /\ r > 0
    /\ Len(text) = r + 14
    /\ text = CookieGood(SubSeq(text, 3, r + 2), text[r + 9], text[r + 13])
    /\ IsCookieAmount(NumChars(text[r + 9]))
    /\ NumChars(text[r + 9])[1] \in {"+", "-", "±"}
    /\ IsDigits(NumChars(text[r + 13]))
CookieAmountOf(text) == NumChars(text[CookieRankLen(text, 3, TRUE) + 9])

\* C28 as stated: when a cookie success reply is classified as a success,
\* by ClaimCookieResponse::from_str or by the binary's Bot::claim_cookies,
\* the amount has the sign and magnitude written in the reply: n for '+n',
\* -n for '-n' and 0 for '±0'.
C28_CookieAmountSign ==
    (/\ rpc = "parsed"
     /\ bot \in {"cookie", "main"}
     /\ CookieSuccessShaped(input)
     /\ outcome.kind = "Success") =>
        outcome.amount = SignedValue(CookieAmountOf(input))

\* C29: the 5-second wait of an attempt is one deadline counted from the
\* send. The time left is the send time plus 5 seconds less the clock,
\* whatever was received; taking a message that does not match leaves the
\* time left and the clock as they are; and the attempt ends as a timeout
\* exactly 5 seconds after the send, without a result.
C29_SingleDeadline ==
    /\ [][pc' = "wait" =>
            timer' = sentAt'[Len(sentAt')] + TIMEOUT_SECS - now']_vars
    /\ [][(pc = "wait" /\ pc' = "wait" /\ Len(queue') < Len(queue)) =>
            timer' = timer /\ now' = now]_vars
    /\ [][(pc = "wait" /\ pc' = "sleep") =>
            /\ now = sentAt[Len(sentAt)] + TIMEOUT_SECS
            /\ result' = NoResult
            /\ timer' = Backoff(retry)]_vars

C29_Witness ==
    /\ pc = "sleep"
    /\ Len(stream) >= 2
    /\ \A i \in 1..Len(stream) : ~IsCorrelated(stream[i])
    /\ queue = <<>>
    /\ now = sentAt[1] + TIMEOUT_SECS
    /\ result = NoResult

\* C30: every invocation of communicate eventually returns, with a reply
\* body or an error, whatever the stream delivers (nothing, messages that
\* never match, its end), given that the timeout and the sleeps elapse and
\* each send completes.
C30_CommunicateTerminates ==
    (pc = "send") ~> (pc = "done" /\ result # NoResult)

C30_Witness ==
    /\ pc = "done"
    /\ result = FailedCommunication(MAX_RETRIES)
    /\ Len(sent) = MAX_RETRIES + 1
    /\ queue # <<>>
    /\ \A i \in 1..Len(queue) : ~IsCorrelated(queue[i])
    /\ ~closed

\* ---------------------------------------------------------------------
\* thepositivebot: main_loop after a Cooldown outcome

\* main_loop is about to call claim_cookies and the last answer to
\* "!cookie" was a Cooldown.
ClaimAfterCooldown ==
    /\ bot = "cookie"
    /\ rpc = "claim"
    /\ outcome.kind = "Cooldown"

\* C31: in main_loop, when the previous "!cookie" was answered with a
\* Cooldown, time has passed in a sleep between the return of that
\* invocation and the next call of claim_cookies, whatever get_cookie_cd
\* answered in between.
C31_SleepAfterCooldown ==
    ClaimAfterCooldown => now > outcomeAt

\* ---------------------------------------------------------------------
\* thepositivebot: the marker over all sends of an instance

\* C33: over all sends an instance of thepositivebot's Bot has made, in
\* every communicate invocation and for every command, the marker is
\* present on exactly one of any two consecutive sends, so two consecutive
\* sends never carry the same text.
C33_MarkerAlternatesOverLifetime ==
    bot = "cookie" =>
        \A i \in 1..(Len(sent) - 1) :
            /\ HasMarker(sent[i]) # HasMarker(sent[i + 1])
            /\ sent[i] # sent[i + 1]

\* Sends of two invocations of the same command follow each other, and
\* another command has been sent as well.
C33_Witness ==
    /\ bot = "cookie"
    /\ iter = 2
    /\ \E i \in 1..(Len(sent) - 1) :
        /\ i = iterStart
        /\ sent[i] \in {COOKIE_MESSAGE, say(COOKIE_MESSAGE, TRUE)}
        /\ sent[i + 1] \in {COOKIE_MESSAGE, say(COOKIE_MESSAGE, TRUE)}
    /\ \E j \in 1..Len(sent) : sent[j] \in {CDR_MESSAGE, say(CDR_MESSAGE, TRUE)}

\* ---------------------------------------------------------------------
\* thepositivebot: sends and the connection

\* C36: thepositivebot's Bot sends only while its runner is connected:
\* between the quit wait_for_cooldown signals and the runner reconnect
\* puts in its place nothing is sent, and once reconnect has failed
\* main_loop has returned that error and nothing is sent any more.
C36_SendsOnLiveConnection ==
    [][bot = "cookie" =>
        /\ sent' # sent => cookieBot.connected /\ cookieBot'.connected
        /\ ~cookieBot.connected => rpc \in {"sleep", "returned"}
        /\ runResult = "reconnect" =>
            /\ ~cookieBot.connected
            /\ rpc = "returned"
            /\ sent' = sent]_vars

\* A command has been sent in an iteration whose wait_for_cooldown ended
\* the connection, slept and reconnected.
C36_Witness ==
    /\ bot = "cookie"
    /\ iter = 1
    /\ oracle = "active"
    /\ cookieBot.connected
    /\ Len(slept) > 0
    /\ Len(sent) > iterStart
    /\ sentAt[Len(sentAt)] >= slept[1]

\* ---------------------------------------------------------------------
\* thepositivebot: the booster branch of the Success arm

\* main_loop has hit unreachable!("booster are disabled"): the task has
\* panicked instead of returning a value.
Panicked == bot = "cookie" /\ rpc = "returned" /\ runResult = "unreachable"

\* C37: whatever booster_mode the Bot was built with, a Success outcome
\* never takes main_loop into a panic: the loop goes on with its next
\* iteration or returns an error value.
C37_SuccessNeverPanics ==
    (bot = "cookie" /\ outcome.kind = "Success") => ~Panicked

\* ---------------------------------------------------------------------
\* thepositivebot: whose reply communicate returns

\* C32: in thepositivebot's Bot, the reply communicate(m) returns answers
\* a send of m made in that invocation; a reply that was left in the
\* connection by an earlier invocation (a late or second reply to its
\* command) is never what a following invocation returns.
C32_ReplyToThisInvocation ==
    (bot = "cookie" /\ result.kind = "Ok") => ~gotStale

\* ------------------------------------------- the binary's Bot (src/main.rs)

\* const MAX_RETRIES: u64 = 3 of the binary's communicate; its loop is
\* `for retry in 0..MAX_RETRIES`.
MAIN_MAX_RETRIES == 3

\* Duration::from_secs(1 + retry.pow(2))
main_backoff(attempt) == 1 + attempt * attempt

\* The commands main_loop hands to communicate.
MainCommands == {<<"!cookie">>, <<"!shop", "buy", "cooldownreset">>}

mainVars == <<pc, message, retry, timer, now, sent, sentAt, slept, result,
              cookieBot, iter, iterStart>>

mainRest == <<queue, closed, stale, gotStale, authSeen, stream, bot, rpc,
              why, outcome, outcomeAt, runResult, oracle, present, input>>

MainInit ==
    /\ pc = "idle"
    /\ message = <<>>
    /\ retry = 0
    /\ timer = 0
    /\ now = 0
    /\ queue = <<>>
    /\ closed = FALSE
    /\ sent = <<>>
    /\ sentAt = <<>>
    /\ slept = <<>>
    /\ result = NoResult
    /\ stale = 0
    /\ gotStale = FALSE
    /\ authSeen = FALSE
    /\ stream = <<>>
    /\ bot = "main"
    /\ rpc = "communicate"
    /\ why = ""
    /\ outcome = NoOutcome
    /\ outcomeAt = 0
    /\ runResult = ""
    /\ iter = 1
    /\ iterStart = 0
    /\ oracle = "none"
    /\ present = "none"
    /\ cookieBot = NoCookieBot
    /\ input = <<>>

\* communicate(message) is called: the first call of the instance, or the
\* next one after an invocation that returned Ok (main_loop passes an Err
\* on with `?`).
main_communicate ==
    /\ bot = "main"
    /\ \/ pc = "idle" /\ iter' = iter
       \/ pc = "done" /\ result.kind = "Ok" /\ iter < MaxIter /\ iter' = iter + 1
    /\ \E msg \in MainCommands : message' = msg
    /\ retry' = 0
    /\ iterStart' = Len(sent)
    /\ result' = NoResult
    /\ pc' = IF 0 < MAIN_MAX_RETRIES THEN "send" ELSE "done"
    /\ UNCHANGED <<timer, now, sent, sentAt, slept, cookieBot>>
    /\ UNCHANGED mainRest

\* self.say(message).await?
main_say ==
    /\ bot = "main"
    /\ pc = "send"
    /\ sent' = Append(sent, say(message, cookieBot.send_byte))
    /\ sentAt' = Append(sentAt, now)
    /\ cookieBot' = [cookieBot EXCEPT !.send_byte = ~cookieBot.send_byte]
    /\ \/ pc' = "wait" /\ timer' = TIMEOUT_SECS /\ UNCHANGED result
       \/ pc' = "done" /\ timer' = 0 /\ result' = Err("SendMessage")
    /\ UNCHANGED <<message, retry, now, slept, iter, iterStart>>
    /\ UNCHANGED mainRest

\* wait_for_answer finishes before the timer: `result => result`.
main_answer ==
    /\ bot = "main"
    /\ pc = "wait"
    /\ \E elapsed \in {0, TIMEOUT_SECS - 1} : now' = now + elapsed
    /\ \E r \in {Ok(<<>>), Err("Quitting")} : result' = r
    /\ pc' = "done"
    /\ timer' = 0
    /\ UNCHANGED <<message, retry, sent, sentAt, slept, cookieBot, iter, iterStart>>
    /\ UNCHANGED mainRest

\* The 5 s timer wins the race: "Response timed out", and the back off
\* sleep begins.
main_timeout ==
    /\ bot = "main"
    /\ pc = "wait"
    /\ now' = now + timer
    /\ timer' = main_backoff(retry)
    /\ pc' = "sleep"
    /\ UNCHANGED <<message, retry, sent, sentAt, slept, result, cookieBot,
                   iter, iterStart>>
    /\ UNCHANGED mainRest

\* The back off sleep ends; `continue` takes the next retry of the range,
\* or leaves the loop for the final Err.
main_continue ==
    /\ bot = "main"
    /\ pc = "sleep"
    /\ now' = now + timer
    /\ slept' = Append(slept, timer)
    /\ timer' = 0
    /\ IF retry + 1 < MAIN_MAX_RETRIES
       THEN /\ retry' = retry + 1
            /\ pc' = "send"
            /\ UNCHANGED result
       ELSE /\ result' = FailedCommunication(MAIN_MAX_RETRIES)
            /\ pc' = "done"
            /\ UNCHANGED retry
    /\ UNCHANGED <<message, sent, sentAt, cookieBot, iter, iterStart>>
    /\ UNCHANGED mainRest

MainNext ==
    \/ main_communicate
    \/ main_say
    \/ main_answer
    \/ main_timeout
    \/ main_continue

MainSpec == MainInit /\ [][MainNext]_vars

\* C34: the communicate of the binary (src/main.rs) keeps the retry
\* budget of the library: after the timeout of attempt k it sleeps
\* 2^(k+2) seconds, and an invocation in which every attempt times out
\* has sent the command 4 times.
C34_MainRetryBudget ==
    [][bot = "main" =>
        /\ (pc = "wait" /\ pc' = "sleep") => timer' = Backoff(retry)
        /\ (pc' = "done" /\ result'.kind = "FailedCommunication") =>
                Len(sent') - iterStart' = MAX_RETRIES + 1]_vars

\* ---------------------------------------------------------------------
\* communicate: the back off after the last attempt

\* C35: FailedCommunication is returned by the step that ends the back
\* off sleep of attempt 3, 32 seconds after that attempt timed out; by
\* then the invocation has sent 4 times, waited 5 seconds after each send
\* and slept 4, 8, 16 and 32 seconds, each sleep right after its wait.
C35_LastBackoffSlept ==
    [][(bot = "none" /\ result'.kind = "FailedCommunication"
                /\ result.kind # "FailedCommunication") =>
        /\ pc = "sleep" /\ pc' = "done"
        /\ retry = MAX_RETRIES
        /\ timer = 32
        /\ slept' = <<4, 8, 16, 32>>
        /\ Len(sent') = 4
        /\ \A i \in 1..3 : sentAt[i + 1] >= sentAt[i] + 5 + slept[i]
        /\ now = sentAt[4] + 5
        /\ now' = sentAt[4] + 5 + 32]_vars

C35_Witness ==
    /\ pc = "done"
    /\ result = FailedCommunication(MAX_RETRIES)
    /\ slept = <<4, 8, 16, 32>>
    /\ Len(sentAt) = 4
    /\ now = sentAt[4] + 37

\* --------------------------------------------- EgBot::get_cooldown alone

\* chrono::Duration::hours(1), in seconds.
CLAIM_EGS_COOLDOWN == 3600

\* The last instant a DateTime<Utc> can hold, in seconds on the scale of
\* the instants below.
MAX_UTC == 20000

\* What get_user_cooldown can report as response.cooldown, and what
\* Utc::now() can be.
LastUsedInstants ==
    {0, 1, 3599, 3600, 7200, MAX_UTC - CLAIM_EGS_COOLDOWN - 1,
     MAX_UTC - CLAIM_EGS_COOLDOWN, MAX_UTC - CLAIM_EGS_COOLDOWN + 1, MAX_UTC}

NowInstants ==
    {0, 1, 3599, 3600, 3601, 7199, 7200, 7201, 10800, MAX_UTC - 1, MAX_UTC}

\* Option and Result values: <<>> is None / Err, <<x>> is Some(x) / Ok(x).
checked_add_signed(instant, duration) ==
    IF instant + duration <= MAX_UTC THEN <<instant + duration>> ELSE <<>>

signed_duration_since(instant, earlier) == instant - earlier

\* A std Duration has no sign: the conversion of a duration of zero fails
\* as that of a negative one.
to_std_positive(duration) == IF duration > 0 THEN <<duration>> ELSE <<>>

\* A std Duration has no sign: the conversion fails on a negative duration.
to_std(duration) == IF duration >= 0 THEN <<duration>> ELSE <<>>

CooldownSome(duration) == [kind |-> "Some", body |-> <<>>, n |-> duration]
CooldownNone == [kind |-> "None", body |-> <<>>, n |-> 0]
ExpectPanic == [kind |-> "panic", body |-> <<>>, n |-> 0]

\* get_cooldown once get_user_cooldown has returned last_used.
get_cooldown(last_used, instant) ==
    LET deadline == checked_add_signed(last_used, CLAIM_EGS_COOLDOWN)
    IN  IF deadline = <<>>
        THEN ExpectPanic
        ELSE LET duration == to_std(signed_duration_since(deadline[1], instant))
             IN  IF duration # <<>>
                 THEN CooldownSome(duration[1])
                 ELSE CooldownNone

\* input holds the response.cooldown get_user_cooldown is about to report,
\* now is what Utc::now() then returns.
GetCooldownInit ==
    /\ pc = "idle"
    /\ message = <<>>
    /\ retry = 0
    /\ timer = 0
    /\ \E instant \in NowInstants : now = instant
    /\ queue = <<>>
    /\ closed = FALSE
    /\ sent = <<>>
    /\ sentAt = <<>>
    /\ slept = <<>>
    /\ result = NoResult
    /\ stale = 0
    /\ gotStale = FALSE
    /\ authSeen = FALSE
    /\ stream = <<>>
    /\ bot = "eg"
    /\ rpc = "get_cooldown"
    /\ why = ""
    /\ outcome = NoOutcome
    /\ outcomeAt = 0
    /\ runResult = ""
    /\ iter = 0
    /\ iterStart = 0
    /\ oracle = "none"
    /\ present = "none"
    /\ cookieBot = NoCookieBot
    /\ \E last_used \in LastUsedInstants : input = <<last_used>>

\* get_cooldown from call to return: get_user_cooldown()? and the match
\* on the converted duration.
GetCooldown ==
    /\ bot = "eg"
    /\ rpc = "get_cooldown"
    /\ \/ \E e \in {"SendRequest", "BadStatusCode", "DeserializeResponse"} :
            result' = Err(e)
       \/ result' = get_cooldown(input[1], now)
    /\ rpc' = "returned"
    /\ UNCHANGED <<pc, message, retry, timer, now, queue, closed, sent, sentAt,
                   slept, stale, gotStale, authSeen, stream, bot, why, outcome,
                   outcomeAt, runResult, iter, iterStart, oracle, present,
                   cookieBot, input>>

GetCooldownNext == GetCooldown

GetCooldownSpec == GetCooldownInit /\ [][GetCooldownNext]_vars

\* get_user_cooldown has returned a last_used and get_cooldown is over.
CooldownComputed ==
    /\ bot = "eg"
    /\ rpc = "returned"
    /\ result.kind \in {"Some", "None", "panic"}

====
